---------------------------- MODULE Spec2Model ----------------------------
(***************************************************************************)
(* Model of the batch orchestration engine of amp-orchestra                *)
(* (desktop-ui/src-tauri/src/batch_engine.rs).                             *)
(*                                                                         *)
(* One BatchEngine owns the registry `active_batches` (a map behind an     *)
(* RwLock).  start_batch registers a BatchExecution and spawns a driver    *)
(* task (execute_batch_internal); the driver walks prompts x repositories, *)
(* calls the session manager's create_session for each pair and, on        *)
(* success, takes a semaphore permit and spawns one session task.  Every   *)
(* step below is one critical section of the registry lock or one await    *)
(* point of the code.                                                      *)
(*                                                                         *)
(* The session manager (create_session / start_session) is the external   *)
(* collaborator: its results are chosen nondeterministically.  Uuid::new_v4*)
(* values are taken to be fresh: a batch id is drawn from ids not yet in   *)
(* the registry, and the n-th session id of a batch is the number n.       *)
(* Instants are modelled by whether the Option holds one.                  *)
(***************************************************************************)
EXTENDS Integers, Sequences, FiniteSets, TLC

VARIABLES
    active_batches,   \* BatchEngine.active_batches: batch id -> BatchExecution
    progress_tx,      \* per batch, every BatchProgress sent on its channel, in order
    driver,           \* per batch, the local state of its execute_batch_internal task
    tasks,            \* per batch, session id -> position of its spawned session task
    create_calls,     \* per batch, the create_session calls issued, in order
    handles,          \* batch id -> the BatchHandle start_batch returned
    last_call,        \* the last start_batch / cancel_batch call and its result
    cancel_calls,     \* number of cancel_batch calls that returned Ok
    status_reply,     \* what the last get_batch_status or list_active_batches
                      \* call returned
    disk,             \* the file system outside the runtime directories
    runtime,          \* runtime_toolboxes: digest -> the tree of that directory
    resolved,         \* the ResolvedToolbox values callers hold, in order of creation
    guards,           \* the ToolboxGuard values callers hold after taking them
    env,              \* the environment map handed to compose_env
    last_resolve,     \* the last resolve_toolboxes call: arguments and result
    tb_reply,         \* what the last take_guard or compose_env call returned
    disk_changes,     \* number of changes the environment made to the roots
    lock,             \* the RwLock of active_batches: who holds a guard of it
    git_backend,      \* which GitBackend create_git_backend gave the manager
    store,            \* the SessionStore: session id -> session record
    worktrees,        \* the session ids that have a worktree in the repository
    metrics,          \* WorktreeManager.metrics
    wt_reply,         \* what the last WorktreeManager call returned
    wt_calls,         \* number of WorktreeManager calls made so far
    session_store,    \* EnhancedSessionManager.store: session id -> Session
    active_sessions,  \* EnhancedSessionManager.active_sessions: id -> ActiveSession
    session_metrics,  \* EnhancedSessionManager.metrics
    calls,            \* the session manager calls in progress or returned, by caller
    children          \* the Amp CLI processes spawned so far, by session id

\* the state of the toolbox resolver and of the environment composer
tbvars == <<disk, runtime, resolved, guards, env, last_resolve, tb_reply,
           disk_changes>>

\* the state of the worktree manager, of its store and of its repository
wtvars == <<git_backend, store, worktrees, metrics, wt_reply, wt_calls>>

\* the state of the session manager, of its store and of its callers
smvars == <<session_store, active_sessions, session_metrics, calls, children>>

vars == <<active_batches, progress_tx, driver, tasks, create_calls, handles,
          last_call, cancel_calls, status_reply, disk, runtime, resolved,
          guards, env, last_resolve, tb_reply, disk_changes, lock,
          git_backend, store, worktrees, metrics, wt_reply, wt_calls,
          session_store, active_sessions, session_metrics, calls, children>>

-----------------------------------------------------------------------------
(* Bounds of the model *)

\* most (prompt, repository) pairs of a config of Spec
MaxSessions == 2

\* cancel_batch calls that find their batch, per run
MaxCancels == 1

\* session records of a hand-built BatchExecution (SpecProgress)
MaxProgressSessions == 5

(* Program constants *)

\* BatchEngine::new: concurrency_limit
concurrency_limit == 8

\* f32: bits of the significand
F32_MANTISSA_DIGITS == 24

-----------------------------------------------------------------------------
(* Helpers *)

Min(a, b) == IF a < b THEN a ELSE b

Pow2(n) == 2 ^ n

Abs(x) == IF x < 0 THEN -x ELSE x

\* a map with key k set to v (HashMap::insert)
Insert(f, k, v) == [x \in DOMAIN f \cup {k} |-> IF x = k THEN v ELSE f[x]]

-----------------------------------------------------------------------------
(* f32 arithmetic of calculate_progress.  An f32 is the record [m, e] of   *)
(* value m / 2^e with 2^23 <= m < 2^24 (or m = 0, e = 0 for 0.0), so two   *)
(* equal f32 values are equal records.  Each operation rounds to nearest,  *)
(* ties to even, as IEEE 754 does.                                         *)

F32Zero == [m |-> 0, e |-> 0]

\* n / d rounded to the nearest integer, ties to the even one
RoundHalfEven(n, d) ==
    LET q == n \div d
        r == n % d
    IN  IF 2 * r < d THEN q
        ELSE IF 2 * r > d THEN q + 1
        ELSE IF q % 2 = 0 THEN q ELSE q + 1

\* a significand that rounding carried to 2^24 is renormalised
F32Norm(m, e) ==
    IF m = Pow2(F32_MANTISSA_DIGITS)
    THEN [m |-> Pow2(F32_MANTISSA_DIGITS - 1), e |-> e - 1]
    ELSE [m |-> m, e |-> e]

\* the scale e at which a * 2^e / b has 24 significant bits
DivScale(a, b) ==
    CHOOSE e \in 0..(2 * F32_MANTISSA_DIGITS) :
        /\ a * Pow2(e) >= b * Pow2(F32_MANTISSA_DIGITS - 1)
        /\ a * Pow2(e) < b * Pow2(F32_MANTISSA_DIGITS)

\* (a as f32) / (b as f32) for small naturals 0 <= a <= b, b > 0
F32Div(a, b) ==
    IF a = 0 THEN F32Zero
    ELSE LET e == DivScale(a, b)
         IN  F32Norm(RoundHalfEven(a * Pow2(e), b), e)

\* the number of low bits to drop from n to leave 24
MulShift(n) ==
    CHOOSE s \in 0..7 :
        /\ n \div Pow2(s) < Pow2(F32_MANTISSA_DIGITS)
        /\ n \div Pow2(s) >= Pow2(F32_MANTISSA_DIGITS - 1)

\* x * 100.0
F32Mul100(x) ==
    IF x.m = 0 THEN F32Zero
    ELSE LET n == 100 * x.m
             s == MulShift(n)
         IN  F32Norm(RoundHalfEven(n, Pow2(s)), x.e - s)

-----------------------------------------------------------------------------
(* Data model *)

SessionStatuses == {"Pending", "Running", "Completed", "Failed"}

\* BatchSessionResult; metrics is None wherever the engine builds one
BatchSessionResult(id, st, started, ended, err) ==
    [session_id |-> id, status |-> st, start_time |-> started,
     end_time |-> ended, error_message |-> err]

\* number of values of the map `sessions` whose status is st
\* (sessions.values().filter(..).count())
RECURSIVE CountIn(_, _, _)
CountIn(sessions, keys, st) ==
    IF keys = {} THEN 0
    ELSE LET k == CHOOSE x \in keys : TRUE
         IN  (IF sessions[k].status = st THEN 1 ELSE 0)
             + CountIn(sessions, keys \ {k}, st)

CountStatus(sessions, st) == CountIn(sessions, DOMAIN sessions, st)

\* the one element of a singleton set
The(S) == CHOOSE x \in S : TRUE

\* (mutant) the failed sessions are left out of the percentage
ProgressPercentOfCompleted(completed, failed, total) ==
    IF total > 0
    THEN The({F32Mul100(q) : q \in {F32Div(a, b) : a \in {completed},
                                                  b \in {total}}})
    ELSE F32Zero

\* the percentage as the code computes it: the quotient, then the product,
\* each computed once
ProgressPercent(completed, failed, total) ==
    IF total > 0
    THEN The({F32Mul100(q) : q \in {F32Div(a, b) : a \in {completed + failed},
                                                  b \in {total}}})
    ELSE F32Zero

\* BatchEngine::calculate_progress
calculate_progress(batch_id, batch) ==
    LET total_sessions     == Cardinality(DOMAIN batch.sessions)
        completed_sessions == CountStatus(batch.sessions, "Completed")
        failed_sessions    == CountStatus(batch.sessions, "Failed")
        running_sessions   == CountStatus(batch.sessions, "Running")
    IN  [batch_id           |-> batch_id,
         total_sessions     |-> total_sessions,
         completed_sessions |-> completed_sessions,
         failed_sessions    |-> failed_sessions,
         running_sessions   |-> running_sessions,
         progress_percent   |-> ProgressPercent(completed_sessions,
                                                failed_sessions, total_sessions),
         status             |-> batch.status]

-----------------------------------------------------------------------------
(* Inputs *)

\* the prompts lists a client submits
PromptLists == {<<>>, <<"p1">>, <<"p1", "p2">>, <<"p1", "p2", "p3">>}

\* the repositories lists a client submits
RepositoryLists == {<<>>, <<"r1">>, <<"r1", "r2">>, <<"r1", "r2", "r3">>}

\* BatchConfig: name, timeout_sec, retry_policy and toolbox_path are never
\* read by the engine, and agent_mode is only handed on to create_session
BatchConfig(prompts, repositories, concurrency) ==
    [prompts |-> prompts, repositories |-> repositories,
     concurrency |-> concurrency]

\* the configs start_batch turns down, as the unit test builds them
InvalidConfigs ==
    {BatchConfig(<<>>, <<"r1">>, 1), BatchConfig(<<"p1">>, <<>>, 1),
     BatchConfig(<<>>, <<>>, 1)}

\* the configs of Spec: those, and every grid of at most MaxSessions pairs
\* with a concurrency of 0, 1 or 2
Configs ==
    InvalidConfigs \cup
    {c \in {BatchConfig(p, r, n) : p \in PromptLists \ {<<>>},
                                   r \in RepositoryLists \ {<<>>},
                                   n \in 0..2} :
        Len(c.prompts) * Len(c.repositories) <= MaxSessions}

\* the configs of SpecWide: the 3 x 3 grid, with a concurrency below, at and
\* above the engine's limit
WideConfigs ==
    {BatchConfig(<<"p1", "p2", "p3">>, <<"r1", "r2", "r3">>, n) :
        n \in {2, concurrency_limit, concurrency_limit + 1}}

\* the ids clients hold; Uuid::new_v4 hands out the fresh ones
BatchIds == {"b1", "b2"}

\* the id the one accepted start_batch call of a run is given
FreshIds == {"b1"}

NoCall == [op |-> "none", batch_id |-> "none", result |-> "none"]

-----------------------------------------------------------------------------
(* start_batch *)

\* (mutant) only the prompts are checked
ValidateConfigPromptsOnly(config) ==
    IF Len(config.prompts) = 0 THEN "InvalidConfig" ELSE "Ok"

\* the config checks of start_batch: "Ok" or the error returned
ValidateConfig(config) ==
    IF Len(config.prompts) = 0 THEN "InvalidConfig"
    ELSE IF Len(config.repositories) = 0 THEN "InvalidConfig"
    ELSE "Ok"

\* (mutant) the repositories are left out of the product
TotalSessionsOfPrompts(config) == Len(config.prompts)

\* total_sessions of the BatchHandle
TotalSessions(config) == Len(config.prompts) * Len(config.repositories)

\* the BatchExecution start_batch registers
NewBatchExecution(id, config) ==
    [id |-> id, config |-> config, status |-> "Pending",
     sessions |-> << >>, start_time |-> FALSE]

\* the driver task as tokio::spawn leaves it: not yet polled
NewDriver ==
    [pc |-> "spawned", prompt |-> 1, repository |-> 1, session_id |-> 0,
     permits |-> 0, session_handles |-> << >>]

\* start_batch(config), the new batch being given the fresh id `id`
StartBatch(id, config) ==
    /\ IF ValidateConfig(config) # "Ok"
       THEN /\ last_call' = [op |-> "start_batch", batch_id |-> "none",
                             result |-> ValidateConfig(config)]
            /\ UNCHANGED <<active_batches, progress_tx, driver, tasks,
                           create_calls, handles>>
       ELSE /\ id \notin DOMAIN active_batches
            /\ active_batches' = Insert(active_batches, id,
                                        NewBatchExecution(id, config))
            /\ progress_tx' = Insert(progress_tx, id, << >>)
            /\ handles' = Insert(handles, id,
                                 [batch_id |-> id,
                                  total_sessions |-> TotalSessions(config)])
            /\ driver' = Insert(driver, id, NewDriver)
            /\ tasks' = Insert(tasks, id, << >>)
            /\ create_calls' = Insert(create_calls, id, << >>)
            /\ last_call' = [op |-> "start_batch", batch_id |-> id,
                             result |-> "Ok"]
    /\ UNCHANGED <<cancel_calls, status_reply>>
    /\ UNCHANGED tbvars
    /\ UNCHANGED <<lock, wtvars, smvars>>

-----------------------------------------------------------------------------
(* execute_batch_internal: the driver task of batch id *)

\* first block: read the config under the read lock
DriverReadConfig(id) ==
    /\ id \in DOMAIN driver
    /\ driver[id].pc = "spawned"
    /\ driver' = [driver EXCEPT ![id].pc =
                     IF id \in DOMAIN active_batches THEN "set_running"
                     ELSE "done"]
    /\ UNCHANGED <<active_batches, progress_tx, tasks, create_calls, handles,
                   last_call, cancel_calls, status_reply>>
    /\ UNCHANGED tbvars
    /\ UNCHANGED <<lock, wtvars, smvars>>

\* (mutant) the semaphore sized by the config alone
SemaphorePermitsUnbounded(config) == config.concurrency

\* the permits of the batch's semaphore
SemaphorePermits(config) == Min(config.concurrency, concurrency_limit)

\* where the driver goes when its loop reaches the pair (p, r)
LoopPc(config, p) == IF p > Len(config.prompts) THEN "join" ELSE "loop"

\* second block: status Running and the start time, then the semaphore
DriverSetRunning(id) ==
    /\ id \in DOMAIN driver
    /\ driver[id].pc = "set_running"
    /\ active_batches' = [active_batches EXCEPT ![id].status = "Running",
                                                ![id].start_time = TRUE]
    /\ driver' = [driver EXCEPT
                     ![id].permits = SemaphorePermits(active_batches[id].config),
                     ![id].pc = LoopPc(active_batches[id].config, 1)]
    /\ UNCHANGED <<progress_tx, tasks, create_calls, handles, last_call,
                   cancel_calls, status_reply>>
    /\ UNCHANGED tbvars
    /\ UNCHANGED <<lock, wtvars, smvars>>

\* (mutant) the loops nested the other way: prompts inside repositories
NextPairRepositoryMajor(config, p, r) ==
    IF p < Len(config.prompts) THEN <<p + 1, r>>
    ELSE IF r < Len(config.repositories) THEN <<1, r + 1>>
    ELSE <<p + 1, 1>>

\* the pair after (p, r) of the nested for loops: repositories inside prompts
NextPair(config, p, r) ==
    IF r < Len(config.repositories) THEN <<p, r + 1>> ELSE <<p + 1, 1>>

\* the driver's locals once the pair it is at has been dealt with
Advance(d, config) ==
    LET n == NextPair(config, d.prompt, d.repository)
    IN  [d EXCEPT !.prompt = n[1], !.repository = n[2],
                  !.pc = LoopPc(config, n[1])]

\* (mutant) the driver looks at the batch before each pair and leaves the
\* loop when the batch was cancelled
DriverCreateSessionStopsOnCancel(id) ==
    /\ id \in DOMAIN driver
    /\ driver[id].pc = "loop"
    /\ LET d == driver[id]
           config == active_batches[id].config
       IN  IF active_batches[id].status = "Cancelled"
           THEN /\ driver' = [driver EXCEPT ![id].pc = "join"]
                /\ UNCHANGED create_calls
           ELSE /\ driver' = [driver EXCEPT ![id].session_id = d.session_id + 1,
                                            ![id].pc = "create_session"]
                /\ create_calls' = [create_calls EXCEPT ![id] =
                       Append(@, [prompt |-> config.prompts[d.prompt],
                                  repository |->
                                      config.repositories[d.repository]])]
    /\ UNCHANGED <<active_batches, progress_tx, tasks, handles, last_call,
                   cancel_calls, status_reply>>
    /\ UNCHANGED tbvars
    /\ UNCHANGED <<lock, wtvars, smvars>>

\* a new session id, and the create_session call for the current pair
DriverCreateSession(id) ==
    /\ id \in DOMAIN driver
    /\ driver[id].pc = "loop"
    /\ LET d == driver[id]
           config == active_batches[id].config
       IN  /\ driver' = [driver EXCEPT ![id].session_id = d.session_id + 1,
                                       ![id].pc = "create_session"]
           /\ create_calls' = [create_calls EXCEPT ![id] =
                  Append(@, [prompt |-> config.prompts[d.prompt],
                             repository |-> config.repositories[d.repository]])]
    /\ UNCHANGED <<active_batches, progress_tx, tasks, handles, last_call,
                   cancel_calls, status_reply>>
    /\ UNCHANGED tbvars
    /\ UNCHANGED <<lock, wtvars, smvars>>

\* create_session returned Ok: the session is tracked as Pending
DriverCreateOk(id) ==
    /\ id \in DOMAIN driver
    /\ driver[id].pc = "create_session"
    /\ LET sid == driver[id].session_id
       IN  active_batches' = [active_batches EXCEPT ![id].sessions =
               Insert(@, sid, BatchSessionResult(sid, "Pending", FALSE, FALSE,
                                                 "None"))]
    /\ driver' = [driver EXCEPT ![id].pc = "acquire"]
    /\ UNCHANGED <<progress_tx, tasks, create_calls, handles, last_call,
                   cancel_calls, status_reply>>
    /\ UNCHANGED tbvars
    /\ UNCHANGED <<lock, wtvars, smvars>>

\* (mutant) a failed create_session ends the driver's loop
DriverCreateErrAborts(id) ==
    /\ id \in DOMAIN driver
    /\ driver[id].pc = "create_session"
    /\ LET sid == driver[id].session_id
       IN  active_batches' = [active_batches EXCEPT ![id].sessions =
               Insert(@, sid, BatchSessionResult(sid, "Failed", FALSE, FALSE,
                                                 "Failed to create session"))]
    /\ driver' = [driver EXCEPT ![id].pc = "join"]
    /\ UNCHANGED <<progress_tx, tasks, create_calls, handles, last_call,
                   cancel_calls, status_reply>>
    /\ UNCHANGED tbvars
    /\ UNCHANGED <<lock, wtvars, smvars>>

\* create_session returned Err: the session is tracked as Failed
DriverCreateErr(id) ==
    /\ id \in DOMAIN driver
    /\ driver[id].pc = "create_session"
    /\ LET sid == driver[id].session_id
       IN  active_batches' = [active_batches EXCEPT ![id].sessions =
               Insert(@, sid, BatchSessionResult(sid, "Failed", FALSE, FALSE,
                                                 "Failed to create session"))]
    /\ driver' = [driver EXCEPT ![id] = Advance(@, active_batches[id].config)]
    /\ UNCHANGED <<progress_tx, tasks, create_calls, handles, last_call,
                   cancel_calls, status_reply>>
    /\ UNCHANGED tbvars
    /\ UNCHANGED <<lock, wtvars, smvars>>

\* acquire_owned is ready when the semaphore has a permit
CanAcquire(permits) == permits > 0

\* a permit is acquired and the session task spawned with it
DriverSpawnTask(id) ==
    /\ id \in DOMAIN driver
    /\ driver[id].pc = "acquire"
    /\ CanAcquire(driver[id].permits)
    /\ LET sid == driver[id].session_id
           d == [driver[id] EXCEPT !.permits = @ - 1,
                                   !.session_handles = Append(@, sid)]
       IN  /\ tasks' = [tasks EXCEPT ![id] = Insert(@, sid, "spawned")]
           /\ driver' = [driver EXCEPT ![id] =
                            Advance(d, active_batches[id].config)]
    /\ UNCHANGED <<active_batches, progress_tx, create_calls, handles,
                   last_call, cancel_calls, status_reply>>
    /\ UNCHANGED tbvars
    /\ UNCHANGED <<lock, wtvars, smvars>>

\* (mutant) the driver does not wait for the tasks it spawned
AllJoinedNoWait(d, t) == TRUE

\* the loop of handle.await returns once every spawned task has exited
AllJoined(d, t) ==
    \A i \in 1..Len(d.session_handles) : t[d.session_handles[i]] = "exited"

DriverJoin(id) ==
    /\ id \in DOMAIN driver
    /\ driver[id].pc = "join"
    /\ AllJoined(driver[id], tasks[id])
    /\ driver' = [driver EXCEPT ![id].pc = "finish"]
    /\ UNCHANGED <<active_batches, progress_tx, tasks, create_calls, handles,
                   last_call, cancel_calls, status_reply>>
    /\ UNCHANGED tbvars
    /\ UNCHANGED <<lock, wtvars, smvars>>

\* (mutant) only the sessions that were started count as failures
FinalStatusStartedOnly(batch) ==
    IF \A k \in DOMAIN batch.sessions :
           batch.sessions[k].status = "Failed" => ~batch.sessions[k].end_time
    THEN "Completed" ELSE "Failed"

\* the batch status the driver writes when all tasks have joined
FinalStatus(batch) ==
    IF CountStatus(batch.sessions, "Failed") = 0 THEN "Completed" ELSE "Failed"

\* (mutant) a driver that takes its batch out of the registry when it ends
DriverFinishRemovesBatch(id) ==
    /\ id \in DOMAIN driver
    /\ driver[id].pc = "finish"
    /\ LET batch == [active_batches[id] EXCEPT
                        !.status = FinalStatus(active_batches[id])]
       IN  /\ active_batches' = [x \in DOMAIN active_batches \ {id} |->
                                    active_batches[x]]
           /\ progress_tx' = [progress_tx EXCEPT ![id] =
                                 Append(@, calculate_progress(id, batch))]
    /\ driver' = [driver EXCEPT ![id].pc = "done"]
    /\ UNCHANGED <<tasks, create_calls, handles, last_call, cancel_calls,
                   status_reply>>
    /\ UNCHANGED tbvars
    /\ UNCHANGED <<lock, wtvars, smvars>>

\* last block: the final status and the final progress update
DriverFinish(id) ==
    /\ id \in DOMAIN driver
    /\ driver[id].pc = "finish"
    /\ LET batch == [active_batches[id] EXCEPT
                        !.status = FinalStatus(active_batches[id])]
       IN  /\ active_batches' = [active_batches EXCEPT ![id] = batch]
           /\ progress_tx' = [progress_tx EXCEPT ![id] =
                                 Append(@, calculate_progress(id, batch))]
    /\ driver' = [driver EXCEPT ![id].pc = "done"]
    /\ UNCHANGED <<tasks, create_calls, handles, last_call, cancel_calls,
                   status_reply>>
    /\ UNCHANGED tbvars
    /\ UNCHANGED <<lock, wtvars, smvars>>

-----------------------------------------------------------------------------
(* The session task of session sid of batch id *)

\* first block: the session is marked Running
TaskMarkRunning(id, sid) ==
    /\ id \in DOMAIN tasks
    /\ sid \in DOMAIN tasks[id]
    /\ tasks[id][sid] = "spawned"
    /\ active_batches' = [active_batches EXCEPT ![id].sessions[sid] =
           [@ EXCEPT !.status = "Running", !.start_time = TRUE]]
    /\ tasks' = [tasks EXCEPT ![id][sid] = "start_session"]
    /\ UNCHANGED <<progress_tx, driver, create_calls, handles, last_call,
                   cancel_calls, status_reply>>
    /\ UNCHANGED tbvars
    /\ UNCHANGED <<lock, wtvars, smvars>>

\* (mutant) a session whose start failed is put back to Pending
RecordResultRequeues(session, ok) ==
    IF ok THEN [session EXCEPT !.end_time = TRUE, !.status = "Completed"]
    ELSE [session EXCEPT !.status = "Pending",
                         !.error_message = "start_session error"]

\* the session record once start_session has returned ok or not
RecordResult(session, ok) ==
    IF ok THEN [session EXCEPT !.end_time = TRUE, !.status = "Completed"]
    ELSE [session EXCEPT !.end_time = TRUE, !.status = "Failed",
                         !.error_message = "start_session error"]

\* (mutant) the progress update is computed before the result is recorded
TaskRecordResultStale(id, sid, ok) ==
    /\ id \in DOMAIN tasks
    /\ sid \in DOMAIN tasks[id]
    /\ tasks[id][sid] = "start_session"
    /\ active_batches' = [active_batches EXCEPT
                              ![id].sessions[sid] = RecordResult(@, ok)]
    /\ progress_tx' = [progress_tx EXCEPT ![id] =
                          Append(@, calculate_progress(id, active_batches[id]))]
    /\ tasks' = [tasks EXCEPT ![id][sid] = "recorded"]
    /\ UNCHANGED <<driver, create_calls, handles, last_call, cancel_calls,
                   status_reply>>
    /\ UNCHANGED tbvars
    /\ UNCHANGED <<lock, wtvars, smvars>>

\* (mutant) cancel_batch reaches the running tasks: the task of a Cancelled
\* batch drops its start_session call and returns without a record
TaskRecordResultInterrupted(id, sid, ok) ==
    /\ id \in DOMAIN tasks
    /\ sid \in DOMAIN tasks[id]
    /\ tasks[id][sid] = "start_session"
    /\ LET batch == [active_batches[id] EXCEPT
                        !.sessions[sid] = RecordResult(@, ok)]
       IN  IF active_batches[id].status = "Cancelled"
           THEN UNCHANGED <<active_batches, progress_tx>>
           ELSE /\ active_batches' = [active_batches EXCEPT ![id] = batch]
                /\ progress_tx' = [progress_tx EXCEPT ![id] =
                                      Append(@, calculate_progress(id, batch))]
    /\ tasks' = [tasks EXCEPT ![id][sid] = "recorded"]
    /\ UNCHANGED <<driver, create_calls, handles, last_call, cancel_calls,
                   status_reply>>
    /\ UNCHANGED tbvars
    /\ UNCHANGED <<lock, wtvars, smvars>>

\* start_session returned: the result is recorded and a progress update sent
TaskRecordResult(id, sid, ok) ==
    /\ id \in DOMAIN tasks
    /\ sid \in DOMAIN tasks[id]
    /\ tasks[id][sid] = "start_session"
    /\ LET batch == [active_batches[id] EXCEPT
                        !.sessions[sid] = RecordResult(@, ok)]
       IN  /\ active_batches' = [active_batches EXCEPT ![id] = batch]
           /\ progress_tx' = [progress_tx EXCEPT ![id] =
                                 Append(@, calculate_progress(id, batch))]
    /\ tasks' = [tasks EXCEPT ![id][sid] = "recorded"]
    /\ UNCHANGED <<driver, create_calls, handles, last_call, cancel_calls,
                   status_reply>>
    /\ UNCHANGED tbvars
    /\ UNCHANGED <<lock, wtvars, smvars>>

\* the semaphore when a task's permit is dropped
ReleasePermit(permits) == permits + 1

\* (mutant) a task whose start_session failed leaves without dropping its
\* permit
TaskExitLeaksOnFailure(id, sid) ==
    /\ id \in DOMAIN tasks
    /\ sid \in DOMAIN tasks[id]
    /\ tasks[id][sid] = "recorded"
    /\ tasks' = [tasks EXCEPT ![id][sid] = "exited"]
    /\ driver' = [driver EXCEPT ![id].permits =
                     IF active_batches[id].sessions[sid].status = "Failed"
                     THEN @ ELSE ReleasePermit(@)]
    /\ UNCHANGED <<active_batches, progress_tx, create_calls, handles,
                   last_call, cancel_calls, status_reply>>
    /\ UNCHANGED tbvars
    /\ UNCHANGED <<lock, wtvars, smvars>>

\* the task ends: its permit is dropped and its JoinHandle becomes ready
TaskExit(id, sid) ==
    /\ id \in DOMAIN tasks
    /\ sid \in DOMAIN tasks[id]
    /\ tasks[id][sid] = "recorded"
    /\ tasks' = [tasks EXCEPT ![id][sid] = "exited"]
    /\ driver' = [driver EXCEPT ![id].permits = ReleasePermit(@)]
    /\ UNCHANGED <<active_batches, progress_tx, create_calls, handles,
                   last_call, cancel_calls, status_reply>>
    /\ UNCHANGED tbvars
    /\ UNCHANGED <<lock, wtvars, smvars>>

-----------------------------------------------------------------------------
(* cancel_batch and get_batch_status *)

\* (mutant) the snapshot is computed before the status is set
CancelBatchStaleSnapshot(id) ==
    /\ IF id \in DOMAIN active_batches
       THEN /\ cancel_calls < MaxCancels
            /\ active_batches' = [active_batches EXCEPT
                                      ![id].status = "Cancelled"]
            /\ progress_tx' = [progress_tx EXCEPT ![id] =
                   Append(@, calculate_progress(id, active_batches[id]))]
            /\ cancel_calls' = cancel_calls + 1
            /\ last_call' = [op |-> "cancel_batch", batch_id |-> id,
                             result |-> "Ok"]
       ELSE /\ last_call' = [op |-> "cancel_batch", batch_id |-> id,
                             result |-> "BatchNotFound"]
            /\ UNCHANGED <<active_batches, progress_tx, cancel_calls>>
    /\ UNCHANGED <<driver, tasks, create_calls, handles, status_reply>>
    /\ UNCHANGED tbvars
    /\ UNCHANGED <<lock, wtvars, smvars>>

CancelBatch(id) ==
    /\ IF id \in DOMAIN active_batches
       THEN /\ cancel_calls < MaxCancels
            /\ LET batch == [active_batches[id] EXCEPT !.status = "Cancelled"]
               IN  /\ active_batches' = [active_batches EXCEPT ![id] = batch]
                   /\ progress_tx' = [progress_tx EXCEPT ![id] =
                          Append(@, calculate_progress(id, batch))]
            /\ cancel_calls' = cancel_calls + 1
            /\ last_call' = [op |-> "cancel_batch", batch_id |-> id,
                             result |-> "Ok"]
       ELSE /\ last_call' = [op |-> "cancel_batch", batch_id |-> id,
                             result |-> "BatchNotFound"]
            /\ UNCHANGED <<active_batches, progress_tx, cancel_calls>>
    /\ UNCHANGED <<driver, tasks, create_calls, handles, status_reply>>
    /\ UNCHANGED tbvars
    /\ UNCHANGED <<lock, wtvars, smvars>>

\* get_batch_status answering an unknown id with the progress of no batch
GetBatchStatusOfNone(id) ==
    /\ status_reply' =
          IF id \in DOMAIN active_batches
          THEN [batch_id |-> id, result |-> "Ok",
                progress |-> calculate_progress(id, active_batches[id])]
          ELSE [batch_id |-> id, result |-> "Ok"]
    /\ UNCHANGED <<active_batches, progress_tx, driver, tasks, create_calls,
                   handles, last_call, cancel_calls>>
    /\ UNCHANGED tbvars
    /\ UNCHANGED <<lock, wtvars, smvars>>

GetBatchStatus(id) ==
    /\ status_reply' =
          IF id \in DOMAIN active_batches
          THEN [batch_id |-> id, result |-> "Ok",
                progress |-> calculate_progress(id, active_batches[id])]
          ELSE [batch_id |-> id, result |-> "BatchNotFound"]
    /\ UNCHANGED <<active_batches, progress_tx, driver, tasks, create_calls,
                   handles, last_call, cancel_calls>>
    /\ UNCHANGED tbvars
    /\ UNCHANGED <<lock, wtvars, smvars>>

\* list_active_batches: the progress of every batch of the registry; the
\* order of the Vec is that of the HashMap's iteration, so the reply is
\* modelled as the map batch id -> progress
ListActiveBatches ==
    /\ status_reply' =
          [result |-> "List",
           batches |-> [id \in DOMAIN active_batches |->
                           calculate_progress(id, active_batches[id])]]
    /\ UNCHANGED <<active_batches, progress_tx, driver, tasks, create_calls,
                   handles, last_call, cancel_calls>>
    /\ UNCHANGED tbvars
    /\ UNCHANGED <<lock, wtvars, smvars>>

-----------------------------------------------------------------------------
(* The engine with the one batch a client starts *)

\* WorktreeMetrics::default()
DefaultMetrics ==
    [total_worktrees_created |-> 0, total_worktrees_cleaned |-> 0,
     total_orphans_cleaned |-> 0, active_worktrees_count |-> 0,
     errors_count |-> 0]

\* no worktree manager: the state of the specifications without one
NoWorktrees ==
    /\ git_backend = "none"
    /\ store = << >>
    /\ worktrees = {}
    /\ metrics = DefaultMetrics
    /\ wt_reply = [op |-> "none"]
    /\ wt_calls = 0

\* SessionMetrics::default()
DefaultSessionMetrics ==
    [active_sessions |-> 0, total_sessions_created |-> 0,
     total_sessions_completed |-> 0, total_sessions_failed |-> 0]

\* EnhancedSessionManager::new: an empty store, no active session, and no
\* call made yet
NoSessions ==
    /\ session_store = << >>
    /\ active_sessions = << >>
    /\ session_metrics = DefaultSessionMetrics
    /\ calls = << >>
    /\ children = << >>

\* no guard of the registry's lock is held
NoLock == [writer |-> << >>, readers |-> {}]

\* nothing resolved, nothing on disk: the batch engine resolves no toolbox
NoToolboxes ==
    /\ disk = << >>
    /\ runtime = << >>
    /\ resolved = << >>
    /\ guards = << >>
    /\ env = << >>
    /\ last_resolve = [n |-> 0, result |-> "none"]
    /\ tb_reply = [op |-> "none"]
    /\ disk_changes = 0

\* BatchEngine::new: no batch registered
NoBatches ==
    /\ active_batches = << >>
    /\ progress_tx = << >>
    /\ driver = << >>
    /\ tasks = << >>
    /\ create_calls = << >>
    /\ handles = << >>
    /\ last_call = NoCall
    /\ cancel_calls = 0
    /\ status_reply = [result |-> "none"]

Init ==
    /\ NoWorktrees
    /\ NoSessions
    /\ lock = NoLock
    /\ NoBatches
    /\ NoToolboxes

\* the session ids a batch can hand out
SessionIds == 1..9

Next ==
    \/ \E id \in FreshIds, config \in Configs : StartBatch(id, config)
    \/ \E id \in BatchIds : DriverReadConfig(id)
    \/ \E id \in BatchIds : DriverSetRunning(id)
    \/ \E id \in BatchIds : DriverCreateSession(id)
    \/ \E id \in BatchIds : DriverCreateOk(id)
    \/ \E id \in BatchIds : DriverCreateErr(id)
    \/ \E id \in BatchIds : DriverSpawnTask(id)
    \/ \E id \in BatchIds : DriverJoin(id)
    \/ \E id \in BatchIds : DriverFinish(id)
    \/ \E id \in BatchIds, sid \in SessionIds : TaskMarkRunning(id, sid)
    \/ \E id \in BatchIds, sid \in SessionIds, ok \in BOOLEAN :
           TaskRecordResult(id, sid, ok)
    \/ \E id \in BatchIds, sid \in SessionIds : TaskExit(id, sid)
    \/ \E id \in BatchIds : CancelBatch(id)

Spec == Init /\ [][Next]_vars

-----------------------------------------------------------------------------
(* The engine with a 3 x 3 batch, in the runs where the session manager    *)
(* fails no create_session call but, possibly, those of WideCreateFailing, *)
(* and returns from start_session for the sessions WideReturning only: the *)
(* other start calls outlast the run, so the driver is still in its loop   *)
(* or waiting to join.  Nobody cancels.                                    *)

WideCreateFailing == {2}

WideReturning == {1}

NextWide ==
    \/ \E id \in FreshIds, config \in WideConfigs : StartBatch(id, config)
    \/ \E id \in BatchIds : DriverReadConfig(id)
    \/ \E id \in BatchIds : DriverSetRunning(id)
    \/ \E id \in BatchIds : DriverCreateSession(id)
    \/ \E id \in BatchIds : DriverCreateOk(id)
    \/ \E id \in BatchIds :
           /\ id \in DOMAIN driver
           /\ driver[id].session_id \in WideCreateFailing
           /\ DriverCreateErr(id)
    \/ \E id \in BatchIds : DriverSpawnTask(id)
    \/ \E id \in BatchIds, sid \in SessionIds : TaskMarkRunning(id, sid)
    \/ \E id \in BatchIds, sid \in WideReturning, ok \in BOOLEAN :
           TaskRecordResult(id, sid, ok)
    \/ \E id \in BatchIds, sid \in SessionIds : TaskExit(id, sid)

SpecWide == Init /\ [][NextWide]_vars

-----------------------------------------------------------------------------
(* One batch under the scheduling the claims of termination assume: tokio  *)
(* polls every task that is ready, and every create_session and           *)
(* start_session call returns.                                             *)

DriverStep(id) ==
    \/ DriverReadConfig(id)
    \/ DriverSetRunning(id)
    \/ DriverCreateSession(id)
    \/ DriverCreateOk(id)
    \/ DriverCreateErr(id)
    \/ DriverSpawnTask(id)
    \/ DriverJoin(id)
    \/ DriverFinish(id)

TaskStep(id, sid) ==
    \/ TaskMarkRunning(id, sid)
    \/ \E ok \in BOOLEAN : TaskRecordResult(id, sid, ok)
    \/ TaskExit(id, sid)

NextFair ==
    \/ \E config \in Configs : StartBatch("b1", config)
    \/ DriverStep("b1")
    \/ \E sid \in 1..MaxSessions : TaskStep("b1", sid)
    \/ CancelBatch("b1")

FairSpec ==
    /\ Init /\ [][NextFair]_vars
    /\ WF_vars(DriverStep("b1"))
    /\ \A sid \in 1..MaxSessions : WF_vars(TaskStep("b1", sid))

-----------------------------------------------------------------------------
(* calculate_progress on a BatchExecution built by hand, as the unit test  *)
(* builds it: any session records, any status.                             *)

\* the session maps of n records with any statuses
SessionMaps(n) ==
    {[k \in 1..n |-> BatchSessionResult(k, st[k], FALSE, FALSE, "None")] :
        st \in [1..n -> SessionStatuses]}

InitProgress ==
    /\ NoWorktrees
    /\ NoSessions
    /\ lock = NoLock
    /\ \E n \in 0..MaxProgressSessions, status \in {"Running", "Cancelled"} :
         \E sessions \in SessionMaps(n) :
           active_batches =
               [b \in {"test"} |->
                   [id |-> "test",
                    config |-> BatchConfig(<<"test">>, <<"/test">>, 1),
                    status |-> status, sessions |-> sessions,
                    start_time |-> TRUE]]
    /\ progress_tx = [b \in {"test"} |-> << >>]
    /\ driver = << >>
    /\ tasks = << >>
    /\ create_calls = << >>
    /\ handles = << >>
    /\ last_call = NoCall
    /\ cancel_calls = 0
    /\ status_reply = [result |-> "none"]
    /\ NoToolboxes

NextProgress == \E id \in {"test", "b2"} : GetBatchStatus(id)

SpecProgress == InitProgress /\ [][NextProgress]_vars

-----------------------------------------------------------------------------
(* The engine with a client that also asks for the status of batches, of   *)
(* ids start_batch returned and of ids it never returned.                  *)

\* one valid 1 x 1 batch and one configuration start_batch refuses
QueryConfigs ==
    {BatchConfig(<<"p1">>, <<"r1">>, 1), BatchConfig(<< >>, <<"r1">>, 1)}

NextQuery ==
    \/ \E id \in FreshIds, config \in QueryConfigs : StartBatch(id, config)
    \/ \E id \in BatchIds : DriverStep(id)
    \/ \E id \in BatchIds, sid \in SessionIds : TaskStep(id, sid)
    \/ \E id \in BatchIds : CancelBatch(id)
    \/ \E id \in BatchIds : GetBatchStatus(id)

SpecQuery == Init /\ [][NextQuery]_vars

-----------------------------------------------------------------------------
(* The engine with a client that asks for the status of batches and for    *)
(* the list of all batches at any moment of a batch's life.                *)

NextRegistry ==
    \/ \E id \in FreshIds, config \in QueryConfigs : StartBatch(id, config)
    \/ \E id \in BatchIds : DriverStep(id)
    \/ \E id \in BatchIds, sid \in SessionIds : TaskStep(id, sid)
    \/ \E id \in BatchIds : CancelBatch(id)
    \/ \E id \in BatchIds : GetBatchStatus(id)
    \/ ListActiveBatches

SpecRegistry == Init /\ [][NextRegistry]_vars

-----------------------------------------------------------------------------
(* One batch of two sessions that a client may cancel at any moment, under *)
(* the scheduling of FairSpec: tokio polls every task that is ready, and   *)
(* every create_session and start_session call returns.                    *)

\* two prompts on one repository, run one at a time or side by side
CancelConfigs == {BatchConfig(<<"p1", "p2">>, <<"r1">>, n) : n \in {1, 2}}

\* the session ids of such a batch
CancelSessions == 1..2

NextCancelFair ==
    \/ \E config \in CancelConfigs : StartBatch("b1", config)
    \/ DriverStep("b1")
    \/ \E sid \in CancelSessions : TaskStep("b1", sid)
    \/ CancelBatch("b1")

SpecCancelFair ==
    /\ Init /\ [][NextCancelFair]_vars
    /\ WF_vars(DriverStep("b1"))
    /\ \A sid \in CancelSessions : WF_vars(TaskStep("b1", sid))

-----------------------------------------------------------------------------
(* One engine with two batches at a time: b1 is the 3 x 3 grid asking for  *)
(* the engine's limit, b2 a single pair.  No create_session call fails and *)
(* the start_session calls of b1 outlast the run.                          *)

WideLimitConfig ==
    BatchConfig(<<"p1", "p2", "p3">>, <<"r1", "r2", "r3">>, concurrency_limit)

SinglePairConfig == BatchConfig(<<"p1">>, <<"r1">>, 1)

NextMulti ==
    \/ StartBatch("b1", WideLimitConfig)
    \/ StartBatch("b2", SinglePairConfig)
    \/ \E id \in BatchIds : DriverReadConfig(id)
    \/ \E id \in BatchIds : DriverSetRunning(id)
    \/ \E id \in BatchIds : DriverCreateSession(id)
    \/ \E id \in BatchIds : DriverCreateOk(id)
    \/ \E id \in BatchIds : DriverSpawnTask(id)
    \/ \E id \in BatchIds : DriverJoin(id)
    \/ \E id \in BatchIds : DriverFinish(id)
    \/ \E id \in BatchIds, sid \in SessionIds : TaskMarkRunning(id, sid)
    \/ \E sid \in SessionIds, ok \in BOOLEAN : TaskRecordResult("b2", sid, ok)
    \/ \E sid \in SessionIds : TaskExit("b2", sid)

SpecMulti == Init /\ [][NextMulti]_vars

-----------------------------------------------------------------------------
(* The engine at the grain of its lock: every block that takes a guard of  *)
(* active_batches is two steps, the acquisition of the guard and the body  *)
(* of the block, at whose end the guard is dropped; every await of a       *)
(* SessionRunner call is two steps as well, the call and its return.       *)
(* lock.writer is the task that holds the write guard (<< >> for none),    *)
(* lock.readers the tasks that hold a read guard.                          *)

\* the tasks that take the lock
DriverOf(id) == <<"driver", id>>

TaskOf(id, sid) == <<"task", id, sid>>

CallOf(op, id) == <<op, id>>

\* RwLock::write is ready when no guard is out, RwLock::read when no write
\* guard is
CanWrite(l) == l.writer = << >> /\ l.readers = {}

CanRead(l) == l.writer = << >>

Holds(l, owner) == l.writer = owner \/ owner \in l.readers

\* the lock once owner's guard is dropped
Release(l, owner) ==
    [writer |-> IF l.writer = owner THEN << >> ELSE l.writer,
     readers |-> l.readers \ {owner}]

\* the blocks of the driver that open with active_batches.read() and with
\* active_batches.write()
DriverReads == {"spawned"}

DriverWrites == {"set_running", "track_ok", "track_err", "finish"}

\* the blocks of a session task, both opening with active_batches.write()
TaskWrites == {"spawned", "record_ok", "record_err"}

\* the driver's read().await or write().await returns the guard
LockDriverAcquire(id) ==
    /\ id \in DOMAIN driver
    /\ ~Holds(lock, DriverOf(id))
    /\ \/ /\ driver[id].pc \in DriverReads
          /\ CanRead(lock)
          /\ lock' = [lock EXCEPT !.readers = @ \cup {DriverOf(id)}]
       \/ /\ driver[id].pc \in DriverWrites
          /\ CanWrite(lock)
          /\ lock' = [lock EXCEPT !.writer = DriverOf(id)]
    /\ UNCHANGED <<active_batches, progress_tx, driver, tasks, create_calls,
                   handles, last_call, cancel_calls, status_reply>>
    /\ UNCHANGED tbvars
    /\ UNCHANGED <<wtvars, smvars>>

\* lines 172-178: the config is read and the guard dropped
LockDriverReadConfig(id) ==
    /\ id \in DOMAIN driver
    /\ driver[id].pc = "spawned"
    /\ Holds(lock, DriverOf(id))
    /\ driver' = [driver EXCEPT ![id].pc =
                     IF id \in DOMAIN active_batches THEN "set_running"
                     ELSE "done"]
    /\ lock' = Release(lock, DriverOf(id))
    /\ UNCHANGED <<active_batches, progress_tx, tasks, create_calls, handles,
                   last_call, cancel_calls, status_reply>>
    /\ UNCHANGED tbvars
    /\ UNCHANGED <<wtvars, smvars>>

\* lines 181-190
LockDriverSetRunning(id) ==
    /\ id \in DOMAIN driver
    /\ driver[id].pc = "set_running"
    /\ Holds(lock, DriverOf(id))
    /\ active_batches' = [active_batches EXCEPT ![id].status = "Running",
                                                ![id].start_time = TRUE]
    /\ driver' = [driver EXCEPT
                     ![id].permits = SemaphorePermits(active_batches[id].config),
                     ![id].pc = LoopPc(active_batches[id].config, 1)]
    /\ lock' = Release(lock, DriverOf(id))
    /\ UNCHANGED <<progress_tx, tasks, create_calls, handles, last_call,
                   cancel_calls, status_reply>>
    /\ UNCHANGED tbvars
    /\ UNCHANGED <<wtvars, smvars>>

\* lines 195-214: the create_session call is made and awaited
LockDriverCreateSession(id) ==
    /\ id \in DOMAIN driver
    /\ driver[id].pc = "loop"
    /\ LET d == driver[id]
           config == active_batches[id].config
       IN  /\ driver' = [driver EXCEPT ![id].session_id = d.session_id + 1,
                                       ![id].pc = "create_session"]
           /\ create_calls' = [create_calls EXCEPT ![id] =
                  Append(@, [prompt |-> config.prompts[d.prompt],
                             repository |-> config.repositories[d.repository]])]
    /\ UNCHANGED <<active_batches, progress_tx, tasks, handles, last_call,
                   cancel_calls, status_reply>>
    /\ UNCHANGED lock
    /\ UNCHANGED tbvars
    /\ UNCHANGED <<wtvars, smvars>>

\* the create_session call returns Ok or Err
LockDriverCreateReturns(id, ok) ==
    /\ id \in DOMAIN driver
    /\ driver[id].pc = "create_session"
    /\ driver' = [driver EXCEPT ![id].pc = IF ok THEN "track_ok"
                                           ELSE "track_err"]
    /\ UNCHANGED <<active_batches, progress_tx, tasks, create_calls, handles,
                   last_call, cancel_calls, status_reply>>
    /\ UNCHANGED lock
    /\ UNCHANGED tbvars
    /\ UNCHANGED <<wtvars, smvars>>

\* lines 217-229: the session is tracked as Pending
LockDriverTrackOk(id) ==
    /\ id \in DOMAIN driver
    /\ driver[id].pc = "track_ok"
    /\ Holds(lock, DriverOf(id))
    /\ LET sid == driver[id].session_id
       IN  active_batches' = [active_batches EXCEPT ![id].sessions =
               Insert(@, sid, BatchSessionResult(sid, "Pending", FALSE, FALSE,
                                                 "None"))]
    /\ driver' = [driver EXCEPT ![id].pc = "acquire"]
    /\ lock' = Release(lock, DriverOf(id))
    /\ UNCHANGED <<progress_tx, tasks, create_calls, handles, last_call,
                   cancel_calls, status_reply>>
    /\ UNCHANGED tbvars
    /\ UNCHANGED <<wtvars, smvars>>

\* lines 284-297: the session is tracked as Failed; the guard is dropped
\* at the end of the match arm
LockDriverTrackErr(id) ==
    /\ id \in DOMAIN driver
    /\ driver[id].pc = "track_err"
    /\ Holds(lock, DriverOf(id))
    /\ LET sid == driver[id].session_id
       IN  active_batches' = [active_batches EXCEPT ![id].sessions =
               Insert(@, sid, BatchSessionResult(sid, "Failed", FALSE, FALSE,
                                                 "Failed to create session"))]
    /\ driver' = [driver EXCEPT ![id] = Advance(@, active_batches[id].config)]
    /\ lock' = Release(lock, DriverOf(id))
    /\ UNCHANGED <<progress_tx, tasks, create_calls, handles, last_call,
                   cancel_calls, status_reply>>
    /\ UNCHANGED tbvars
    /\ UNCHANGED <<wtvars, smvars>>

\* lines 232-282: acquire_owned().await returns and the task is spawned
LockDriverSpawnTask(id) ==
    /\ id \in DOMAIN driver
    /\ driver[id].pc = "acquire"
    /\ CanAcquire(driver[id].permits)
    /\ LET sid == driver[id].session_id
           d == [driver[id] EXCEPT !.permits = @ - 1,
                                   !.session_handles = Append(@, sid)]
       IN  /\ tasks' = [tasks EXCEPT ![id] = Insert(@, sid, "spawned")]
           /\ driver' = [driver EXCEPT ![id] =
                            Advance(d, active_batches[id].config)]
    /\ UNCHANGED <<active_batches, progress_tx, create_calls, handles,
                   last_call, cancel_calls, status_reply>>
    /\ UNCHANGED lock
    /\ UNCHANGED tbvars
    /\ UNCHANGED <<wtvars, smvars>>

\* lines 303-305
LockDriverJoin(id) ==
    /\ id \in DOMAIN driver
    /\ driver[id].pc = "join"
    /\ AllJoined(driver[id], tasks[id])
    /\ driver' = [driver EXCEPT ![id].pc = "finish"]
    /\ UNCHANGED <<active_batches, progress_tx, tasks, create_calls, handles,
                   last_call, cancel_calls, status_reply>>
    /\ UNCHANGED lock
    /\ UNCHANGED tbvars
    /\ UNCHANGED <<wtvars, smvars>>

\* lines 308-325
LockDriverFinish(id) ==
    /\ id \in DOMAIN driver
    /\ driver[id].pc = "finish"
    /\ Holds(lock, DriverOf(id))
    /\ LET batch == [active_batches[id] EXCEPT
                        !.status = FinalStatus(active_batches[id])]
       IN  /\ active_batches' = [active_batches EXCEPT ![id] = batch]
           /\ progress_tx' = [progress_tx EXCEPT ![id] =
                                 Append(@, calculate_progress(id, batch))]
    /\ driver' = [driver EXCEPT ![id].pc = "done"]
    /\ lock' = Release(lock, DriverOf(id))
    /\ UNCHANGED <<tasks, create_calls, handles, last_call, cancel_calls,
                   status_reply>>
    /\ UNCHANGED tbvars
    /\ UNCHANGED <<wtvars, smvars>>

\* a session task's write().await returns the guard
LockTaskAcquire(id, sid) ==
    /\ id \in DOMAIN tasks
    /\ sid \in DOMAIN tasks[id]
    /\ tasks[id][sid] \in TaskWrites
    /\ ~Holds(lock, TaskOf(id, sid))
    /\ CanWrite(lock)
    /\ lock' = [lock EXCEPT !.writer = TaskOf(id, sid)]
    /\ UNCHANGED <<active_batches, progress_tx, driver, tasks, create_calls,
                   handles, last_call, cancel_calls, status_reply>>
    /\ UNCHANGED tbvars
    /\ UNCHANGED <<wtvars, smvars>>

\* (mutant) the guard taken to mark the session Running is kept while
\* start_session is awaited
LockTaskMarkRunningHoldsGuard(id, sid) ==
    /\ id \in DOMAIN tasks
    /\ sid \in DOMAIN tasks[id]
    /\ tasks[id][sid] = "spawned"
    /\ Holds(lock, TaskOf(id, sid))
    /\ active_batches' = [active_batches EXCEPT ![id].sessions[sid] =
           [@ EXCEPT !.status = "Running", !.start_time = TRUE]]
    /\ tasks' = [tasks EXCEPT ![id][sid] = "start_session"]
    /\ lock' = lock
    /\ UNCHANGED <<progress_tx, driver, create_calls, handles, last_call,
                   cancel_calls, status_reply>>
    /\ UNCHANGED tbvars
    /\ UNCHANGED <<wtvars, smvars>>

\* lines 244-255: the session is marked Running, the guard dropped and
\* start_session called
LockTaskMarkRunning(id, sid) ==
    /\ id \in DOMAIN tasks
    /\ sid \in DOMAIN tasks[id]
    /\ tasks[id][sid] = "spawned"
    /\ Holds(lock, TaskOf(id, sid))
    /\ active_batches' = [active_batches EXCEPT ![id].sessions[sid] =
           [@ EXCEPT !.status = "Running", !.start_time = TRUE]]
    /\ tasks' = [tasks EXCEPT ![id][sid] = "start_session"]
    /\ lock' = Release(lock, TaskOf(id, sid))
    /\ UNCHANGED <<progress_tx, driver, create_calls, handles, last_call,
                   cancel_calls, status_reply>>
    /\ UNCHANGED tbvars
    /\ UNCHANGED <<wtvars, smvars>>

\* line 255: start_session returns Ok or Err
LockTaskStartReturns(id, sid, ok) ==
    /\ id \in DOMAIN tasks
    /\ sid \in DOMAIN tasks[id]
    /\ tasks[id][sid] = "start_session"
    /\ tasks' = [tasks EXCEPT ![id][sid] = IF ok THEN "record_ok"
                                           ELSE "record_err"]
    /\ UNCHANGED <<active_batches, progress_tx, driver, create_calls, handles,
                   last_call, cancel_calls, status_reply>>
    /\ UNCHANGED lock
    /\ UNCHANGED tbvars
    /\ UNCHANGED <<wtvars, smvars>>

\* lines 259-277: the result is recorded and a progress update sent
LockTaskRecordResult(id, sid) ==
    /\ id \in DOMAIN tasks
    /\ sid \in DOMAIN tasks[id]
    /\ tasks[id][sid] \in {"record_ok", "record_err"}
    /\ Holds(lock, TaskOf(id, sid))
    /\ LET batch == [active_batches[id] EXCEPT !.sessions[sid] =
                        RecordResult(@, tasks[id][sid] = "record_ok")]
       IN  /\ active_batches' = [active_batches EXCEPT ![id] = batch]
           /\ progress_tx' = [progress_tx EXCEPT ![id] =
                                 Append(@, calculate_progress(id, batch))]
    /\ tasks' = [tasks EXCEPT ![id][sid] = "recorded"]
    /\ lock' = Release(lock, TaskOf(id, sid))
    /\ UNCHANGED <<driver, create_calls, handles, last_call, cancel_calls,
                   status_reply>>
    /\ UNCHANGED tbvars
    /\ UNCHANGED <<wtvars, smvars>>

\* lines 279-280: the task returns and its permit is dropped
LockTaskExit(id, sid) ==
    /\ id \in DOMAIN tasks
    /\ sid \in DOMAIN tasks[id]
    /\ tasks[id][sid] = "recorded"
    /\ tasks' = [tasks EXCEPT ![id][sid] = "exited"]
    /\ driver' = [driver EXCEPT ![id].permits = ReleasePermit(@)]
    /\ UNCHANGED <<active_batches, progress_tx, create_calls, handles,
                   last_call, cancel_calls, status_reply>>
    /\ UNCHANGED lock
    /\ UNCHANGED tbvars
    /\ UNCHANGED <<wtvars, smvars>>

\* line 360: a cancel_batch call gets the write guard
LockCancelAcquire(id) ==
    /\ cancel_calls < MaxCancels
    /\ ~Holds(lock, CallOf("cancel_batch", id))
    /\ CanWrite(lock)
    /\ lock' = [lock EXCEPT !.writer = CallOf("cancel_batch", id)]
    /\ UNCHANGED <<active_batches, progress_tx, driver, tasks, create_calls,
                   handles, last_call, cancel_calls, status_reply>>
    /\ UNCHANGED tbvars
    /\ UNCHANGED <<wtvars, smvars>>

\* lines 362-373: the body of cancel_batch
LockCancelBatch(id) ==
    /\ Holds(lock, CallOf("cancel_batch", id))
    /\ IF id \in DOMAIN active_batches
       THEN /\ LET batch == [active_batches[id] EXCEPT !.status = "Cancelled"]
               IN  /\ active_batches' = [active_batches EXCEPT ![id] = batch]
                   /\ progress_tx' = [progress_tx EXCEPT ![id] =
                          Append(@, calculate_progress(id, batch))]
            /\ cancel_calls' = cancel_calls + 1
            /\ last_call' = [op |-> "cancel_batch", batch_id |-> id,
                             result |-> "Ok"]
       ELSE /\ last_call' = [op |-> "cancel_batch", batch_id |-> id,
                             result |-> "BatchNotFound"]
            /\ UNCHANGED <<active_batches, progress_tx, cancel_calls>>
    /\ lock' = Release(lock, CallOf("cancel_batch", id))
    /\ UNCHANGED <<driver, tasks, create_calls, handles, status_reply>>
    /\ UNCHANGED tbvars
    /\ UNCHANGED <<wtvars, smvars>>

\* line 376: a get_batch_status call gets a read guard
LockStatusAcquire(id) ==
    /\ ~Holds(lock, CallOf("get_batch_status", id))
    /\ CanRead(lock)
    /\ lock' = [lock EXCEPT !.readers = @ \cup {CallOf("get_batch_status", id)}]
    /\ UNCHANGED <<active_batches, progress_tx, driver, tasks, create_calls,
                   handles, last_call, cancel_calls, status_reply>>
    /\ UNCHANGED tbvars
    /\ UNCHANGED <<wtvars, smvars>>

\* lines 378-383: the body of get_batch_status
LockGetBatchStatus(id) ==
    /\ Holds(lock, CallOf("get_batch_status", id))
    /\ status_reply' =
          IF id \in DOMAIN active_batches
          THEN [batch_id |-> id, result |-> "Ok",
                progress |-> calculate_progress(id, active_batches[id])]
          ELSE [batch_id |-> id, result |-> "BatchNotFound"]
    /\ lock' = Release(lock, CallOf("get_batch_status", id))
    /\ UNCHANGED <<active_batches, progress_tx, driver, tasks, create_calls,
                   handles, last_call, cancel_calls>>
    /\ UNCHANGED tbvars
    /\ UNCHANGED <<wtvars, smvars>>

\* one batch of two sessions that run side by side
LockConfigs == {BatchConfig(<<"p1", "p2">>, <<"r1">>, 2)}

NextLock ==
    \/ \E config \in LockConfigs : CanWrite(lock) /\ StartBatch("b1", config)
    \/ LockDriverAcquire("b1")
    \/ LockDriverReadConfig("b1")
    \/ LockDriverSetRunning("b1")
    \/ LockDriverCreateSession("b1")
    \/ \E ok \in BOOLEAN : LockDriverCreateReturns("b1", ok)
    \/ LockDriverTrackOk("b1")
    \/ LockDriverTrackErr("b1")
    \/ LockDriverSpawnTask("b1")
    \/ LockDriverJoin("b1")
    \/ LockDriverFinish("b1")
    \/ \E sid \in CancelSessions : LockTaskAcquire("b1", sid)
    \/ \E sid \in CancelSessions : LockTaskMarkRunning("b1", sid)
    \/ \E sid \in CancelSessions, ok \in BOOLEAN :
           LockTaskStartReturns("b1", sid, ok)
    \/ \E sid \in CancelSessions : LockTaskRecordResult("b1", sid)
    \/ \E sid \in CancelSessions : LockTaskExit("b1", sid)
    \/ LockCancelAcquire("b1")
    \/ LockCancelBatch("b1")
    \/ LockStatusAcquire("b1")
    \/ LockGetBatchStatus("b1")

SpecLock == Init /\ [][NextLock]_vars

-----------------------------------------------------------------------------
(* The session manager (desktop-ui/src-tauri/src/session_manager.rs).  A   *)
(* call of a caller is a record in `calls`: its operation, the session id  *)
(* it was given or made, where it stands, its result, and the process it   *)
(* spawned.  start_session and stop_session take one step for every await  *)
(* of the store and every block under a lock of the manager, so calls of   *)
(* different callers interleave as tokio lets them.  The values of         *)
(* Uuid::new_v4 are taken to be fresh: Session::new draws from             *)
(* SessionUuids, which holds no id any other component makes.              *)

\* the number of calls one caller makes
MaxSessionCalls == 2

\* the ids Session::new hands out, in this order
SessionUuids == <<"uuid-a", "uuid-b">>

\* the next id of Session::new, << >> when the model has no more
NextUuid ==
    LET free == {k \in 1..Len(SessionUuids) :
                    \A c \in DOMAIN calls :
                        calls[c].made # SessionUuids[k]}
    IN  IF free = {} THEN << >>
        ELSE <<SessionUuids[CHOOSE k \in free : \A j \in free : k <= j]>>

\* a caller may begin a call
CanCall(c) ==
    IF c \notin DOMAIN calls THEN TRUE
    ELSE calls[c].pc = "returned" /\ calls[c].n < MaxSessionCalls

CallNumber(c) == IF c \in DOMAIN calls THEN calls[c].n + 1 ELSE 1

\* the record of a call that begins
NewCall(c, op, session_id, pc) ==
    [n |-> CallNumber(c), op |-> op, session_id |-> session_id, pc |-> pc,
     result |-> "none", child |-> 0, made |-> "none"]

\* the call returns
Return(c, result) == [calls EXCEPT ![c].pc = "returned", ![c].result = result]

\* the processes spawned and killed for a session so far
ChildrenOf(session_id) ==
    IF session_id \in DOMAIN children THEN children[session_id]
    ELSE [spawned |-> 0, killed |-> 0]

\* create_session without a worktree manager: Session::new, the store's
\* create_session (store_ok tells whether it succeeds) and the metrics
CreateSession(c, store_ok) ==
    /\ CanCall(c)
    /\ NextUuid # << >>
    /\ LET id == NextUuid[1]
           call == [NewCall(c, "create_session", id, "returned")
                      EXCEPT !.made = id]
       IN  IF ~store_ok
           THEN /\ calls' = Insert(calls, c,
                      [call EXCEPT !.result = "Failed to persist session"])
                /\ UNCHANGED <<session_store, session_metrics>>
           ELSE /\ session_store' = Insert(session_store, id,
                                           [status |-> "Initializing"])
                /\ session_metrics' = [session_metrics EXCEPT
                                          !.total_sessions_created = @ + 1]
                /\ calls' = Insert(calls, c, [call EXCEPT !.result = "Ok"])
    /\ UNCHANGED <<active_sessions, children>>
    /\ UNCHANGED <<active_batches, progress_tx, driver, tasks, create_calls,
                   handles, last_call, cancel_calls, status_reply>>
    /\ UNCHANGED tbvars
    /\ UNCHANGED <<lock, wtvars>>

\* a caller calls start_session(session_id)
StartSession(c, session_id) ==
    /\ CanCall(c)
    /\ calls' = Insert(calls, c,
                       NewCall(c, "start_session", session_id, "get_session"))
    /\ UNCHANGED <<session_store, active_sessions, session_metrics, children>>
    /\ UNCHANGED <<active_batches, progress_tx, driver, tasks, create_calls,
                   handles, last_call, cancel_calls, status_reply>>
    /\ UNCHANGED tbvars
    /\ UNCHANGED <<lock, wtvars>>

\* lines 158-160: the session is read from the store
StartGetSession(c, store_ok) ==
    /\ c \in DOMAIN calls
    /\ calls[c].pc = "get_session"
    /\ calls' = IF ~store_ok THEN Return(c, "Failed to get session")
                ELSE IF calls[c].session_id \notin DOMAIN session_store
                THEN Return(c, "Session not found")
                ELSE [calls EXCEPT ![c].pc = "check_active"]
    /\ UNCHANGED <<session_store, active_sessions, session_metrics, children>>
    /\ UNCHANGED <<active_batches, progress_tx, driver, tasks, create_calls,
                   handles, last_call, cancel_calls, status_reply>>
    /\ UNCHANGED tbvars
    /\ UNCHANGED <<lock, wtvars>>

\* lines 163-168: under the read lock, is the session active already
StartCheckActive(c) ==
    /\ c \in DOMAIN calls
    /\ calls[c].pc = "check_active"
    /\ calls' = IF calls[c].session_id \in DOMAIN active_sessions
                THEN Return(c, "Session already active")
                ELSE [calls EXCEPT ![c].pc = "spawn"]
    /\ UNCHANGED <<session_store, active_sessions, session_metrics, children>>
    /\ UNCHANGED <<active_batches, progress_tx, driver, tasks, create_calls,
                   handles, last_call, cancel_calls, status_reply>>
    /\ UNCHANGED tbvars
    /\ UNCHANGED <<lock, wtvars>>

\* lines 171-174: the environment is composed and the Amp CLI spawned;
\* either can fail
StartSpawn(c, spawn_ok) ==
    /\ c \in DOMAIN calls
    /\ calls[c].pc = "spawn"
    /\ LET id == calls[c].session_id
           was == ChildrenOf(id)
       IN  IF ~spawn_ok
           THEN /\ calls' = Return(c, "Failed to spawn Amp CLI process")
                /\ UNCHANGED children
           ELSE /\ children' = Insert(children, id,
                                      [was EXCEPT !.spawned = @ + 1])
                /\ calls' = [calls EXCEPT ![c].pc = "insert",
                                          ![c].child = was.spawned + 1]
    /\ UNCHANGED <<session_store, active_sessions, session_metrics>>
    /\ UNCHANGED <<active_batches, progress_tx, driver, tasks, create_calls,
                   handles, last_call, cancel_calls, status_reply>>
    /\ UNCHANGED tbvars
    /\ UNCHANGED <<lock, wtvars>>

\* lines 177-190: the ActiveSession is put into the map under the write
\* lock, in the place of one that is there
StartInsert(c) ==
    /\ c \in DOMAIN calls
    /\ calls[c].pc = "insert"
    /\ active_sessions' = Insert(active_sessions, calls[c].session_id,
                                 [child |-> calls[c].child])
    /\ calls' = [calls EXCEPT ![c].pc = "update"]
    /\ UNCHANGED <<session_store, session_metrics, children>>
    /\ UNCHANGED <<active_batches, progress_tx, driver, tasks, create_calls,
                   handles, last_call, cancel_calls, status_reply>>
    /\ UNCHANGED tbvars
    /\ UNCHANGED <<lock, wtvars>>

\* InMemoryStore::update_session and its like: an error of the store, or no
\* record of that id
UpdateSession(st, session_id, status, store_ok) ==
    IF ~store_ok \/ session_id \notin DOMAIN st
    THEN [result |-> "Err", store |-> st]
    ELSE [result |-> "Ok",
          store |-> [st EXCEPT ![session_id].status = status]]

\* lines 193-198: the session is stored as Running
StartUpdate(c, store_ok) ==
    /\ c \in DOMAIN calls
    /\ calls[c].pc = "update"
    /\ LET out == UpdateSession(session_store, calls[c].session_id,
                                "Running", store_ok)
       IN  /\ session_store' = out.store
           /\ calls' = IF out.result = "Ok"
                       THEN [calls EXCEPT ![c].pc = "metrics"]
                       ELSE Return(c, "Failed to update session status")
    /\ UNCHANGED <<active_sessions, session_metrics, children>>
    /\ UNCHANGED <<active_batches, progress_tx, driver, tasks, create_calls,
                   handles, last_call, cancel_calls, status_reply>>
    /\ UNCHANGED tbvars
    /\ UNCHANGED <<lock, wtvars>>

\* lines 201-206
StartMetrics(c) ==
    /\ c \in DOMAIN calls
    /\ calls[c].pc = "metrics"
    /\ session_metrics' = [session_metrics EXCEPT !.active_sessions = @ + 1]
    /\ calls' = Return(c, "Ok")
    /\ UNCHANGED <<session_store, active_sessions, children>>
    /\ UNCHANGED <<active_batches, progress_tx, driver, tasks, create_calls,
                   handles, last_call, cancel_calls, status_reply>>
    /\ UNCHANGED tbvars
    /\ UNCHANGED <<lock, wtvars>>

\* a caller calls stop_session(session_id)
StopSession(c, session_id) ==
    /\ CanCall(c)
    /\ calls' = Insert(calls, c,
                       NewCall(c, "stop_session", session_id, "stop_remove"))
    /\ UNCHANGED <<session_store, active_sessions, session_metrics, children>>
    /\ UNCHANGED <<active_batches, progress_tx, driver, tasks, create_calls,
                   handles, last_call, cancel_calls, status_reply>>
    /\ UNCHANGED tbvars
    /\ UNCHANGED <<lock, wtvars>>

\* lines 211-221: the ActiveSession is taken out of the map and its process
\* killed
StopRemove(c) ==
    /\ c \in DOMAIN calls
    /\ calls[c].pc = "stop_remove"
    /\ LET id == calls[c].session_id
       IN  IF id \notin DOMAIN active_sessions
           THEN /\ calls' = Return(c, "Session not active")
                /\ UNCHANGED <<active_sessions, children>>
           ELSE /\ active_sessions' =
                      [x \in DOMAIN active_sessions \ {id} |->
                          active_sessions[x]]
                /\ children' = [children EXCEPT ![id].killed = @ + 1]
                /\ calls' = [calls EXCEPT
                                ![c].pc = "stop_update",
                                ![c].child = active_sessions[id].child]
    /\ UNCHANGED <<session_store, session_metrics>>
    /\ UNCHANGED <<active_batches, progress_tx, driver, tasks, create_calls,
                   handles, last_call, cancel_calls, status_reply>>
    /\ UNCHANGED tbvars
    /\ UNCHANGED <<lock, wtvars>>

\* lines 224-228: the session is stored as Completed
StopUpdate(c, store_ok) ==
    /\ c \in DOMAIN calls
    /\ calls[c].pc = "stop_update"
    /\ LET out == UpdateSession(session_store, calls[c].session_id,
                                "Completed", store_ok)
       IN  /\ session_store' = out.store
           /\ calls' = IF out.result = "Ok"
                       THEN [calls EXCEPT ![c].pc = "stop_metrics"]
                       ELSE Return(c, "Failed to update session status")
    /\ UNCHANGED <<active_sessions, session_metrics, children>>
    /\ UNCHANGED <<active_batches, progress_tx, driver, tasks, create_calls,
                   handles, last_call, cancel_calls, status_reply>>
    /\ UNCHANGED tbvars
    /\ UNCHANGED <<lock, wtvars>>

\* usize::saturating_sub(1)
SaturatingSub1(n) == IF n = 0 THEN 0 ELSE n - 1

\* lines 231-237
StopMetrics(c) ==
    /\ c \in DOMAIN calls
    /\ calls[c].pc = "stop_metrics"
    /\ session_metrics' = [session_metrics EXCEPT
                              !.active_sessions = SaturatingSub1(@),
                              !.total_sessions_completed = @ + 1]
    /\ calls' = Return(c, "Ok")
    /\ UNCHANGED <<session_store, active_sessions, children>>
    /\ UNCHANGED <<active_batches, progress_tx, driver, tasks, create_calls,
                   handles, last_call, cancel_calls, status_reply>>
    /\ UNCHANGED tbvars
    /\ UNCHANGED <<lock, wtvars>>

-----------------------------------------------------------------------------
(* A session manager with two callers: each makes up to MaxSessionCalls    *)
(* calls, one after the other, and the calls of the two run side by side.  *)

Callers == {"c1", "c2"}

\* the ids callers pass: those of Session::new and one nobody made
CalledIds == {SessionUuids[k] : k \in 1..Len(SessionUuids)} \cup {"unknown"}

InitSessions ==
    /\ NoSessions
    /\ NoWorktrees
    /\ lock = NoLock
    /\ NoBatches
    /\ NoToolboxes

NextSessions ==
    \/ \E c \in Callers, store_ok \in BOOLEAN : CreateSession(c, store_ok)
    \/ \E c \in Callers, session_id \in CalledIds : StartSession(c, session_id)
    \/ \E c \in Callers, store_ok \in BOOLEAN : StartGetSession(c, store_ok)
    \/ \E c \in Callers : StartCheckActive(c)
    \/ \E c \in Callers, spawn_ok \in BOOLEAN : StartSpawn(c, spawn_ok)
    \/ \E c \in Callers : StartInsert(c)
    \/ \E c \in Callers, store_ok \in BOOLEAN : StartUpdate(c, store_ok)
    \/ \E c \in Callers : StartMetrics(c)
    \/ \E c \in Callers, session_id \in CalledIds : StopSession(c, session_id)
    \/ \E c \in Callers : StopRemove(c)
    \/ \E c \in Callers, store_ok \in BOOLEAN : StopUpdate(c, store_ok)
    \/ \E c \in Callers : StopMetrics(c)

SpecSessions == InitSessions /\ [][NextSessions]_vars

-----------------------------------------------------------------------------
(* The batch engine on its session manager: the driver's create_session    *)
(* calls and the tasks' start_session calls are calls of the manager       *)
(* above.  A client that knows the ids of the store starts sessions too.   *)

\* the uuid the engine draws for its n-th session (batch_engine.rs:195)
EngineUuids == <<"engine-1", "engine-2">>

\* the callers of the manager: the driver, its session tasks, a client
TaskCallers == <<"task-1", "task-2">>

EngineConfigs == {BatchConfig(<<"p1", "p2">>, <<"r1">>, 2)}

\* the manager has answered the driver's create_session call in progress
CreateAnswered ==
    /\ "b1" \in DOMAIN driver
    /\ driver["b1"].pc = "create_session"
    /\ "driver" \in DOMAIN calls
    /\ calls["driver"].n = Len(create_calls["b1"])

\* the manager has answered the start_session call of the task of sid
StartAnswered(sid) ==
    /\ TaskCallers[sid] \in DOMAIN calls
    /\ calls[TaskCallers[sid]].pc = "returned"

NextEngineSessions ==
    \/ \E config \in EngineConfigs : StartBatch("b1", config)
    \/ DriverReadConfig("b1")
    \/ DriverSetRunning("b1")
    \/ DriverCreateSession("b1")
    \/ \E store_ok \in BOOLEAN :
           /\ "b1" \in DOMAIN driver
           /\ driver["b1"].pc = "create_session"
           /\ CallNumber("driver") = Len(create_calls["b1"])
           /\ CreateSession("driver", store_ok)
    \/ CreateAnswered /\ calls["driver"].result = "Ok" /\ DriverCreateOk("b1")
    \/ CreateAnswered /\ calls["driver"].result # "Ok" /\ DriverCreateErr("b1")
    \/ DriverSpawnTask("b1")
    \/ \E sid \in CancelSessions : TaskMarkRunning("b1", sid)
    \/ \E sid \in CancelSessions :
           /\ "b1" \in DOMAIN tasks
           /\ sid \in DOMAIN tasks["b1"]
           /\ tasks["b1"][sid] = "start_session"
           /\ TaskCallers[sid] \notin DOMAIN calls
           /\ StartSession(TaskCallers[sid], EngineUuids[sid])
    \/ \E session_id \in DOMAIN session_store :
           /\ "client" \notin DOMAIN calls
           /\ StartSession("client", session_id)
    \/ \E c \in DOMAIN calls, store_ok \in BOOLEAN : StartGetSession(c, store_ok)
    \/ \E c \in DOMAIN calls : StartCheckActive(c)
    \/ \E c \in DOMAIN calls, spawn_ok \in BOOLEAN : StartSpawn(c, spawn_ok)
    \/ \E c \in DOMAIN calls : StartInsert(c)
    \/ \E c \in DOMAIN calls, store_ok \in BOOLEAN : StartUpdate(c, store_ok)
    \/ \E c \in DOMAIN calls : StartMetrics(c)
    \/ \E sid \in CancelSessions :
           /\ StartAnswered(sid)
           /\ TaskRecordResult("b1", sid, calls[TaskCallers[sid]].result = "Ok")
    \/ \E sid \in CancelSessions : TaskExit("b1", sid)
    \/ DriverJoin("b1")
    \/ DriverFinish("b1")

SpecEngineSessions == Init /\ [][NextEngineSessions]_vars

-----------------------------------------------------------------------------
(* The worktree manager (unified-core/src/worktree_manager.rs) over the    *)
(* session store and a git backend.  A worktree is known by the session id *)
(* it was created for; the calls of one manager are taken one at a time.   *)
(* The timing fields of WorktreeMetrics are left out.                      *)

\* the number of manager calls of a run
MaxWorktreeCalls == 3

\* the two backends create_git_backend chooses between
GitBackends == {"LibGit2Backend", "CliBackend"}

\* session ids callers use: two well-formed ones and one that is too short
WorktreeSessionIds == {"sess1111-11111111", "sess2222-22222222", "short"}

\* what can go wrong inside a backend call: nothing, its branch operation
\* or its worktree operation
GitFaults == {"none", "branch", "worktree"}

\* GitBackend::create_worktree: the branch is made from the base branch,
\* then the worktree at .worktrees/{session_id}
create_worktree(wts, session_id, fault) ==
    IF fault = "branch" THEN [result |-> "Err", worktrees |-> wts]
    ELSE IF session_id \in wts
    THEN [result |-> "WorktreeExists", worktrees |-> wts]
    ELSE IF fault = "worktree" THEN [result |-> "Err", worktrees |-> wts]
    ELSE [result |-> "Ok", worktrees |-> wts \cup {session_id}]

\* GitBackend::list_worktrees: LibGit2Backend reads the worktrees directory,
\* CliBackend the output of git worktree list, empty when git fails
list_worktrees(backend, wts, fault) ==
    IF fault = "none" THEN [result |-> "Ok", list |-> wts]
    ELSE IF backend = "LibGit2Backend" THEN [result |-> "Err", list |-> {}]
    ELSE [result |-> "Ok", list |-> {}]

\* GitBackend::cleanup_worktree.  LibGit2Backend deletes the branch if it
\* finds it, then the directory if it exists; CliBackend refuses a missing
\* worktree, removes the worktree and then deletes the branch
cleanup_worktree(backend, wts, session_id, fault) ==
    IF backend = "LibGit2Backend"
    THEN IF fault = "branch" THEN [result |-> "Err", worktrees |-> wts]
         ELSE IF session_id \in wts /\ fault = "worktree"
         THEN [result |-> "Err", worktrees |-> wts]
         ELSE [result |-> "Ok", worktrees |-> wts \ {session_id}]
    ELSE IF session_id \notin wts
         THEN [result |-> "WorktreeNotFound", worktrees |-> wts]
         ELSE IF fault = "worktree"
         THEN [result |-> "Err", worktrees |-> wts]
         ELSE IF fault = "branch"
         THEN [result |-> "Err", worktrees |-> wts \ {session_id}]
         ELSE [result |-> "Ok", worktrees |-> wts \ {session_id}]

\* SessionStore::get_session, which a failing database answers with Err
get_session(st, session_id, db_ok) ==
    IF ~db_ok THEN [result |-> "Err"]
    ELSE IF session_id \in DOMAIN st
    THEN [result |-> "Some", session |-> st[session_id]]
    ELSE [result |-> "None"]

\* session.worktree_path.exists(): the record's path is that of the
\* session's worktree or a path nothing is at
WorktreePathExists(session, session_id, wts) ==
    session.worktree_path = session_id /\ session_id \in wts

\* the session id is empty or shorter than 8 characters
InvalidSessionId(session_id) == Len(session_id) < 8

\* create_session_worktree(session_id, _): check_ok and update_ok tell
\* whether the two get_session calls succeed, context_ok whether
\* initialize_agent_context does
CreateSessionWorktree(session_id, check_ok, fault, context_ok, update_ok) ==
    /\ wt_calls < MaxWorktreeCalls
    /\ wt_calls' = wt_calls + 1
    /\ LET existing == get_session(store, session_id, check_ok)
           made == create_worktree(worktrees, session_id, fault)
           found == get_session(store, session_id, update_ok)
       IN  IF InvalidSessionId(session_id)
           THEN /\ wt_reply' = [op |-> "create_session_worktree",
                                session_id |-> session_id,
                                result |-> "InvalidSessionId"]
                /\ UNCHANGED <<store, worktrees, metrics>>
           ELSE IF /\ existing.result = "Some"
                   /\ WorktreePathExists(existing.session, session_id,
                                         worktrees)
           THEN /\ wt_reply' = [op |-> "create_session_worktree",
                                session_id |-> session_id,
                                result |-> "SessionWorktreeExists"]
                /\ UNCHANGED <<store, worktrees, metrics>>
           ELSE IF made.result # "Ok"
           THEN /\ wt_reply' = [op |-> "create_session_worktree",
                                session_id |-> session_id,
                                result |-> "Git"]
                /\ UNCHANGED <<store, worktrees, metrics>>
           ELSE IF ~context_ok
           THEN /\ worktrees' = made.worktrees
                /\ wt_reply' = [op |-> "create_session_worktree",
                                session_id |-> session_id,
                                result |-> "DirectoryCreationFailed"]
                /\ UNCHANGED <<store, metrics>>
           ELSE /\ worktrees' = made.worktrees
                /\ store' = IF found.result = "Some"
                            THEN [store EXCEPT ![session_id].worktree_path =
                                                   session_id]
                            ELSE store
                /\ metrics' = [metrics EXCEPT
                                  !.total_worktrees_created = @ + 1]
                /\ wt_reply' = [op |-> "create_session_worktree",
                                session_id |-> session_id, result |-> "Ok"]
    /\ UNCHANGED git_backend
    /\ UNCHANGED <<active_batches, progress_tx, driver, tasks, create_calls,
                   handles, last_call, cancel_calls, status_reply>>
    /\ UNCHANGED tbvars
    /\ UNCHANGED <<lock, smvars>>

\* cleanup_worktree(session_id)
CleanupWorktree(session_id, db_ok, fault) ==
    /\ wt_calls < MaxWorktreeCalls
    /\ wt_calls' = wt_calls + 1
    /\ LET session == get_session(store, session_id, db_ok)
           cleaned == cleanup_worktree(git_backend, worktrees, session_id,
                                       fault)
       IN  IF session.result = "Err"
           THEN /\ wt_reply' = [op |-> "cleanup_worktree",
                                session_id |-> session_id,
                                result |-> "Persistence"]
                /\ UNCHANGED <<worktrees, metrics>>
           ELSE IF session.result = "None"
           THEN /\ wt_reply' = [op |-> "cleanup_worktree",
                                session_id |-> session_id,
                                result |-> "SessionWorktreeNotFound"]
                /\ UNCHANGED <<worktrees, metrics>>
           ELSE /\ worktrees' = cleaned.worktrees
                /\ metrics' =
                      IF cleaned.result = "Ok"
                      THEN [metrics EXCEPT !.total_worktrees_cleaned = @ + 1]
                      ELSE metrics
                /\ wt_reply' = [op |-> "cleanup_worktree",
                                session_id |-> session_id,
                                result |-> IF cleaned.result = "Ok" THEN "Ok"
                                           ELSE "Git"]
    /\ UNCHANGED <<git_backend, store>>
    /\ UNCHANGED <<active_batches, progress_tx, driver, tasks, create_calls,
                   handles, last_call, cancel_calls, status_reply>>
    /\ UNCHANGED tbvars
    /\ UNCHANGED <<lock, smvars>>

\* the worktrees of the list, in the order the backend listed them
ListOrders(list) ==
    {order \in [1..Cardinality(list) -> list] :
        \A i, j \in 1..Cardinality(list) : i # j => order[i] # order[j]}

\* (mutant) every orphan is reported, whether or not its cleanup succeeded
OrphanStepReportsAll(backend, acc, session_id, st, db_ok, fault) ==
    LET session == get_session(st, session_id, db_ok)
        cleaned == cleanup_worktree(backend, acc.worktrees, session_id, fault)
    IN  IF session.result # "None" THEN acc
        ELSE [acc EXCEPT !.worktrees = cleaned.worktrees,
                         !.orphaned_sessions = Append(@, session_id)]

\* one turn of the loop of cleanup_orphaned_worktrees, for one listed
\* worktree; acc holds the repository, the ids pushed and the errors
\* counted so far
OrphanStep(backend, acc, session_id, st, db_ok, fault) ==
    LET session == get_session(st, session_id, db_ok)
        cleaned == cleanup_worktree(backend, acc.worktrees, session_id, fault)
    IN  IF session.result # "None" THEN acc
        ELSE IF cleaned.result # "Ok"
        THEN [acc EXCEPT !.worktrees = cleaned.worktrees,
                         !.errors = @ + 1]
        ELSE [acc EXCEPT !.worktrees = cleaned.worktrees,
                         !.orphaned_sessions = Append(@, session_id)]

\* the loop over the listed worktrees from the k-th on
RECURSIVE OrphanLoop(_, _, _, _, _, _, _)
OrphanLoop(backend, acc, order, k, st, db_ok, fault) ==
    IF k > Len(order) THEN acc
    ELSE OrphanLoop(backend,
                    OrphanStep(backend, acc, order[k], st, db_ok[order[k]],
                               fault[order[k]]),
                    order, k + 1, st, db_ok, fault)

\* cleanup_orphaned_worktrees(): list_fault is what goes wrong in
\* list_worktrees; db_ok and fault tell, for each worktree, whether the
\* get_session call for it succeeds and what goes wrong in its cleanup
CleanupOrphanedWorktrees(list_fault, order, db_ok, fault) ==
    /\ wt_calls < MaxWorktreeCalls
    /\ wt_calls' = wt_calls + 1
    /\ LET listed == list_worktrees(git_backend, worktrees, list_fault)
       IN  IF listed.result # "Ok"
           THEN /\ wt_reply' = [op |-> "cleanup_orphaned_worktrees",
                                result |-> "Git"]
                /\ UNCHANGED <<worktrees, metrics>>
           ELSE /\ order \in ListOrders(listed.list)
                /\ LET out == OrphanLoop(git_backend,
                                         [worktrees |-> worktrees,
                                          orphaned_sessions |-> << >>,
                                          errors |-> 0],
                                         order, 1, store, db_ok, fault)
                   IN  /\ worktrees' = out.worktrees
                       /\ metrics' = [metrics EXCEPT
                              !.errors_count = @ + out.errors,
                              !.total_orphans_cleaned =
                                  @ + Len(out.orphaned_sessions)]
                       /\ wt_reply' = [op |-> "cleanup_orphaned_worktrees",
                                       result |-> "Ok",
                                       orphaned_sessions |->
                                           out.orphaned_sessions,
                                       listed |-> listed.list,
                                       lookups |-> db_ok,
                                       faults |-> fault]
    /\ UNCHANGED <<git_backend, store>>
    /\ UNCHANGED <<active_batches, progress_tx, driver, tasks, create_calls,
                   handles, last_call, cancel_calls, status_reply>>
    /\ UNCHANGED tbvars
    /\ UNCHANGED <<lock, smvars>>

\* reset_metrics()
ResetMetrics ==
    /\ wt_calls < MaxWorktreeCalls
    /\ wt_calls' = wt_calls + 1
    /\ metrics' = DefaultMetrics
    /\ wt_reply' = [op |-> "reset_metrics", result |-> "Ok"]
    /\ UNCHANGED <<git_backend, store, worktrees>>
    /\ UNCHANGED <<active_batches, progress_tx, driver, tasks, create_calls,
                   handles, last_call, cancel_calls, status_reply>>
    /\ UNCHANGED tbvars
    /\ UNCHANGED <<lock, smvars>>

\* the session manager records a session: Session::new points the record
\* at the worktree of its own id, a caller that sets the id afterwards
\* leaves the path of another
StoreCreateSession(session_id, own_path) ==
    /\ session_id \notin DOMAIN store
    /\ store' = Insert(store, session_id,
                       [worktree_path |-> IF own_path THEN session_id
                                          ELSE "elsewhere"])
    /\ wt_reply' = [op |-> "create_session", result |-> "Ok"]
    /\ UNCHANGED <<git_backend, worktrees, metrics, wt_calls>>
    /\ UNCHANGED <<active_batches, progress_tx, driver, tasks, create_calls,
                   handles, last_call, cancel_calls, status_reply>>
    /\ UNCHANGED tbvars
    /\ UNCHANGED <<lock, smvars>>

\* the session manager deletes a session record
StoreDeleteSession(session_id) ==
    /\ session_id \in DOMAIN store
    /\ store' = [x \in DOMAIN store \ {session_id} |-> store[x]]
    /\ wt_reply' = [op |-> "delete_session", result |-> "Ok"]
    /\ UNCHANGED <<git_backend, worktrees, metrics, wt_calls>>
    /\ UNCHANGED <<active_batches, progress_tx, driver, tasks, create_calls,
                   handles, last_call, cancel_calls, status_reply>>
    /\ UNCHANGED tbvars
    /\ UNCHANGED <<lock, smvars>>

\* WorktreeManager::new on a repository without worktrees and an empty
\* store, auto_cleanup_orphans off as in the tests
InitWorktrees ==
    /\ NoSessions
    /\ NoBatches
    /\ NoToolboxes
    /\ lock = NoLock
    /\ git_backend \in GitBackends
    /\ store = << >>
    /\ worktrees = {}
    /\ metrics = DefaultMetrics
    /\ wt_reply = [op |-> "none"]
    /\ wt_calls = 0

NextWorktrees ==
    \/ \E session_id \in WorktreeSessionIds, check_ok \in BOOLEAN,
          fault \in GitFaults, context_ok \in BOOLEAN, update_ok \in BOOLEAN :
           CreateSessionWorktree(session_id, check_ok, fault, context_ok,
                                 update_ok)
    \/ \E session_id \in WorktreeSessionIds, db_ok \in BOOLEAN,
          fault \in GitFaults :
           CleanupWorktree(session_id, db_ok, fault)
    \/ \E list_fault \in {"none", "worktree"},
          order \in ListOrders(worktrees) \cup {<< >>},
          db_ok \in [worktrees -> BOOLEAN],
          fault \in [worktrees -> GitFaults] :
           CleanupOrphanedWorktrees(list_fault, order, db_ok, fault)
    \/ ResetMetrics
    \/ \E session_id \in WorktreeSessionIds, own_path \in BOOLEAN :
           StoreCreateSession(session_id, own_path)
    \/ \E session_id \in WorktreeSessionIds : StoreDeleteSession(session_id)

SpecWorktrees == InitWorktrees /\ [][NextWorktrees]_vars

-----------------------------------------------------------------------------
(* The desktop wiring: an EnhancedSessionManager with its own session      *)
(* store, given a TauriWorktreeManager.  The worktree manager inside keeps *)
(* the InMemoryStore that TauriWorktreeManager::new made for it, which     *)
(* never fails and which nothing but that manager can reach: `store` is    *)
(* that store, `session_store` the one create_session persists to.         *)

\* the ids Session::new hands out, in this order: uuids, long enough for
\* create_session_worktree
DesktopUuids == <<"sess1111-11111111", "sess2222-22222222">>

\* the next id of Session::new, << >> when the model has no more
NextDesktopUuid ==
    LET free == {k \in 1..Len(DesktopUuids) :
                    \A c \in DOMAIN calls :
                        calls[c].made # DesktopUuids[k]}
    IN  IF free = {} THEN << >>
        ELSE <<DesktopUuids[CHOOSE k \in free : \A j \in free : k <= j]>>

\* create_session with a worktree manager begins: Session::new, then the
\* call of create_session_worktree for the id of the new session
DesktopCreateSession(c) ==
    /\ CanCall(c)
    /\ NextDesktopUuid # << >>
    /\ LET id == NextDesktopUuid[1]
       IN  calls' = Insert(calls, c,
                  [NewCall(c, "create_session", id, "create_worktree")
                      EXCEPT !.made = id])
    /\ UNCHANGED <<session_store, active_sessions, session_metrics, children>>
    /\ UNCHANGED <<active_batches, progress_tx, driver, tasks, create_calls,
                   handles, last_call, cancel_calls, status_reply>>
    /\ UNCHANGED tbvars
    /\ UNCHANGED <<lock, wtvars>>

\* the worktree manager has answered the create_session_worktree call of c
WorktreeReplied(c) ==
    /\ calls[c].pc = "create_worktree"
    /\ wt_reply.op = "create_session_worktree"
    /\ wt_reply.session_id = calls[c].session_id

\* create_session takes the answer: an error ends the call, a guard gives
\* the session its worktree path and is dropped at the end of the block
DesktopWorktreeReturns(c) ==
    /\ c \in DOMAIN calls
    /\ WorktreeReplied(c)
    /\ calls' = IF wt_reply.result = "Ok"
                THEN [calls EXCEPT ![c].pc = "persist"]
                ELSE Return(c, "Failed to create worktree")
    /\ UNCHANGED <<session_store, active_sessions, session_metrics, children>>
    /\ UNCHANGED <<active_batches, progress_tx, driver, tasks, create_calls,
                   handles, last_call, cancel_calls, status_reply>>
    /\ UNCHANGED tbvars
    /\ UNCHANGED <<lock, wtvars>>

\* create_session persists the session and counts it
DesktopPersist(c, store_ok) ==
    /\ c \in DOMAIN calls
    /\ calls[c].pc = "persist"
    /\ IF ~store_ok
       THEN /\ calls' = Return(c, "Failed to persist session")
            /\ UNCHANGED <<session_store, session_metrics>>
       ELSE /\ session_store' = Insert(session_store, calls[c].session_id,
                                       [status |-> "Initializing"])
            /\ session_metrics' = [session_metrics EXCEPT
                                      !.total_sessions_created = @ + 1]
            /\ calls' = Return(c, "Ok")
    /\ UNCHANGED <<active_sessions, children>>
    /\ UNCHANGED <<active_batches, progress_tx, driver, tasks, create_calls,
                   handles, last_call, cancel_calls, status_reply>>
    /\ UNCHANGED tbvars
    /\ UNCHANGED <<lock, wtvars>>

\* the guard of c's create_session call has been dropped
GuardDropped(c) ==
    /\ calls[c].op = "create_session"
    /\ \/ calls[c].pc = "persist"
       \/ /\ calls[c].pc = "returned"
          /\ calls[c].result # "Failed to create worktree"

\* an answer of the worktree manager that create_session has yet to take
ReplyPending == \E c \in DOMAIN calls : WorktreeReplied(c)

\* TauriWorktreeManager::new on the same repository: a manager with a
\* store and metrics of its own, whose construction runs
\* cleanup_orphaned_worktrees and logs its failure.  The session manager
\* keeps the manager it was given, whose store and metrics stay as they are
TauriWorktreeManagerNew(list_fault, order, fault) ==
    /\ wt_calls < MaxWorktreeCalls
    /\ wt_calls' = wt_calls + 1
    /\ LET listed == list_worktrees(git_backend, worktrees, list_fault)
       IN  IF listed.result # "Ok"
           THEN UNCHANGED worktrees
           ELSE /\ order \in ListOrders(listed.list)
                /\ worktrees' =
                       OrphanLoop(git_backend,
                                  [worktrees |-> worktrees,
                                   orphaned_sessions |-> << >>,
                                   errors |-> 0],
                                  order, 1, << >>,
                                  [w \in worktrees |-> TRUE], fault).worktrees
    /\ wt_reply' = [op |-> "new", result |-> "Ok"]
    /\ UNCHANGED <<git_backend, store, metrics>>
    /\ UNCHANGED <<active_batches, progress_tx, driver, tasks, create_calls,
                   handles, last_call, cancel_calls, status_reply>>
    /\ UNCHANGED tbvars
    /\ UNCHANGED <<lock, smvars>>

NextDesktop ==
    \/ \E c \in Callers : DesktopCreateSession(c)
    \/ \E c \in DOMAIN calls, fault \in GitFaults, context_ok \in BOOLEAN :
           /\ calls[c].pc = "create_worktree"
           /\ ~WorktreeReplied(c)
           /\ CreateSessionWorktree(calls[c].session_id, TRUE, fault,
                                    context_ok, TRUE)
    \/ \E c \in DOMAIN calls : DesktopWorktreeReturns(c)
    \/ \E c \in DOMAIN calls, store_ok \in BOOLEAN : DesktopPersist(c, store_ok)
    \/ \E c \in DOMAIN calls, fault \in GitFaults :
           /\ GuardDropped(c)
           /\ ~ReplyPending
           /\ CleanupWorktree(calls[c].session_id, TRUE, fault)
    \/ \E list_fault \in {"none", "worktree"},
          order \in ListOrders(worktrees) \cup {<< >>},
          fault \in [worktrees -> GitFaults] :
           /\ ~ReplyPending
           /\ CleanupOrphanedWorktrees(list_fault, order,
                                       [w \in worktrees |-> TRUE], fault)
    \/ \E list_fault \in {"none", "worktree"},
          order \in ListOrders(worktrees) \cup {<< >>},
          fault \in [worktrees -> GitFaults] :
           /\ ~ReplyPending
           /\ TauriWorktreeManagerNew(list_fault, order, fault)

SpecDesktop == InitWorktrees /\ [][NextDesktop]_vars

-----------------------------------------------------------------------------
(* Properties of the batch engine *)

\* the session tasks of batch id that hold a permit: spawned, not yet exited
PermitHolders(id) == {sid \in DOMAIN tasks[id] : tasks[id][sid] # "exited"}

\* the sessions of batch id whose record has status st
SessionsWith(id, st) ==
    {sid \in DOMAIN active_batches[id].sessions :
        active_batches[id].sessions[sid].status = st}

\* C1: in every state the session tasks of a batch that hold a permit are at
\* most min(config.concurrency, 8), and every Running session is one of them
C1_PermitsBounded ==
    \A id \in DOMAIN tasks :
        /\ Cardinality(PermitHolders(id))
              <= Min(active_batches[id].config.concurrency, 8)
        /\ SessionsWith(id, "Running") \subseteq PermitHolders(id)

\* C1 witness: a config asking for 9 has 8 tasks holding permits, sessions
\* among them Running, and the driver waiting for a permit for the ninth
C1_Witness ==
    \E id \in DOMAIN tasks :
        /\ active_batches[id].config.concurrency = 9
        /\ Cardinality(PermitHolders(id)) = 8
        /\ Cardinality(SessionsWith(id, "Running")) >= 2
        /\ driver[id].pc = "acquire"

\* C2: with no cancel_batch call, a finished driver leaves the batch
\* Completed iff no session record is Failed, and Failed otherwise
C2_FinalStatus ==
    \A id \in DOMAIN driver :
        (driver[id].pc = "done" /\ cancel_calls = 0) =>
            active_batches[id].status =
                IF SessionsWith(id, "Failed") = {} THEN "Completed"
                ELSE "Failed"

\* C2 witness: a finished, never cancelled batch that is Failed with a
\* creation failure as its only failure, beside a Completed session
C2_Witness ==
    \E id \in DOMAIN driver :
        /\ driver[id].pc = "done" /\ cancel_calls = 0
        /\ active_batches[id].status = "Failed"
        /\ SessionsWith(id, "Completed") # {}
        /\ \A sid \in SessionsWith(id, "Failed") :
               ~active_batches[id].sessions[sid].end_time

\* C3: once cancel_batch has returned Ok the batch stays Cancelled: no step
\* replaces the status Cancelled
C3_CancelledIsFinal ==
    [][\A id \in DOMAIN active_batches :
           active_batches[id].status = "Cancelled" =>
               active_batches'[id].status = "Cancelled"]_vars

\* the counts of the session records of batch id, as a snapshot reports them
CountsMatch(snapshot, sessions) ==
    /\ snapshot.total_sessions = Cardinality(DOMAIN sessions)
    /\ \A st \in {"Completed", "Failed", "Running"} :
           Cardinality({k \in DOMAIN sessions : sessions[k].status = st})
               = (CASE st = "Completed" -> snapshot.completed_sessions
                    [] st = "Failed" -> snapshot.failed_sessions
                    [] st = "Running" -> snapshot.running_sessions)

\* C4: a cancel_batch call that finds its batch sets the status Cancelled and
\* sends one snapshot, with status Cancelled and the counts of the session
\* records at that moment; the session records and the registry's keys, and
\* every other batch, are as before
C4_CancelEffect ==
    [][cancel_calls' # cancel_calls =>
          \E id \in DOMAIN active_batches :
              /\ last_call' = [op |-> "cancel_batch", batch_id |-> id,
                               result |-> "Ok"]
              /\ active_batches'[id].status = "Cancelled"
              /\ Len(progress_tx'[id]) = Len(progress_tx[id]) + 1
              /\ SubSeq(progress_tx'[id], 1, Len(progress_tx[id]))
                    = progress_tx[id]
              /\ LET sent == progress_tx'[id][Len(progress_tx'[id])]
                 IN  /\ sent.status = "Cancelled"
                     /\ sent.batch_id = id
                     /\ CountsMatch(sent, active_batches[id].sessions)
              /\ active_batches'[id].sessions = active_batches[id].sessions
              /\ active_batches'[id].config = active_batches[id].config
              /\ DOMAIN active_batches' = DOMAIN active_batches
              /\ \A other \in DOMAIN active_batches \ {id} :
                     /\ active_batches'[other] = active_batches[other]
                     /\ progress_tx'[other] = progress_tx[other]]_vars

\* C4 witness: a cancel that came while one session was Running and another
\* had finished: the channel ends with its Cancelled snapshot
C4_Witness ==
    \E id \in DOMAIN active_batches :
        /\ last_call = [op |-> "cancel_batch", batch_id |-> id, result |-> "Ok"]
        /\ Len(progress_tx[id]) >= 2
        /\ LET sent == progress_tx[id][Len(progress_tx[id])]
           IN  /\ sent.status = "Cancelled"
               /\ sent.running_sessions = 1
               /\ sent.completed_sessions + sent.failed_sessions = 1

\* C5: under FairSpec the driver of every accepted batch ends: it has joined
\* its tasks, the batch has a terminal status and the final snapshot is sent
C5_DriverTerminates ==
    \A id \in BatchIds :
        (id \in DOMAIN driver) ~>
            (/\ id \in DOMAIN driver
             /\ driver[id].pc = "done"
             /\ active_batches[id].status \in {"Completed", "Failed", "Cancelled"}
             /\ Len(progress_tx[id]) > 0)

\* the pairs of a config in prompt-major order
PairsInOrder(config) ==
    [k \in 1..(Len(config.prompts) * Len(config.repositories)) |->
        [prompt |-> config.prompts[((k - 1) \div Len(config.repositories)) + 1],
         repository |->
             config.repositories[((k - 1) % Len(config.repositories)) + 1]]]

\* the step of batch id in which a create_session call returns Err
CreateFails(id) ==
    /\ id \in DOMAIN driver
    /\ driver[id].pc = "create_session"
    /\ driver'[id].pc \notin {"create_session", "acquire"}

\* C6: when create_session fails the driver adds one session record, Failed
\* with an error message, takes no permit and spawns no task, and goes on to
\* the next pair; a finished driver has issued the create call of every pair
C6_CreateFailure ==
    /\ [][\A id \in BatchIds : CreateFails(id) =>
             LET sid == driver[id].session_id
                 n == Len(create_calls[id])
                 all == Len(PairsInOrder(active_batches[id].config))
             IN  /\ DOMAIN active_batches'[id].sessions
                       = DOMAIN active_batches[id].sessions \cup {sid}
                 /\ sid \notin DOMAIN active_batches[id].sessions
                 /\ active_batches'[id].sessions[sid].status = "Failed"
                 /\ active_batches'[id].sessions[sid].error_message # "None"
                 /\ \A k \in DOMAIN active_batches[id].sessions :
                        active_batches'[id].sessions[k]
                            = active_batches[id].sessions[k]
                 /\ driver'[id].permits = driver[id].permits
                 /\ driver'[id].session_handles = driver[id].session_handles
                 /\ tasks' = tasks
                 /\ active_batches'[id].status = active_batches[id].status
                 /\ driver'[id].pc = IF n < all THEN "loop" ELSE "join"]_vars
    /\ [](\A id \in DOMAIN driver :
             driver[id].pc = "done" =>
                 Len(create_calls[id])
                     = Len(PairsInOrder(active_batches[id].config)))

\* C6 witness: the first create_session call failed, the second pair was
\* created, started and Completed, and the driver has finished
C6_Witness ==
    \E id \in DOMAIN driver :
        /\ driver[id].pc = "done"
        /\ DOMAIN active_batches[id].sessions = {1, 2}
        /\ active_batches[id].sessions[1].status = "Failed"
        /\ ~active_batches[id].sessions[1].end_time
        /\ active_batches[id].sessions[2].status = "Completed"
        /\ DOMAIN tasks[id] = {2}

\* C7: a start_batch call answers InvalidConfig; it changes nothing but that
\* answer; and no batch with an empty prompts or repositories list is ever
\* registered, given a driver or a channel
C7_InvalidConfigRejected ==
    /\ [][(last_call' # last_call /\ last_call'.result = "InvalidConfig") =>
             /\ last_call'.op = "start_batch"
             /\ UNCHANGED <<active_batches, progress_tx, driver, tasks,
                            create_calls, handles>>]_vars
    /\ [](\A id \in DOMAIN active_batches \cup DOMAIN driver
                     \cup DOMAIN progress_tx \cup DOMAIN handles :
             /\ id \in DOMAIN active_batches
             /\ Len(active_batches[id].config.prompts) > 0
             /\ Len(active_batches[id].config.repositories) > 0)

\* C7 witness: start_batch answered InvalidConfig while a batch was running,
\* and the batch is still the only one registered
C7_Witness ==
    /\ last_call = [op |-> "start_batch", batch_id |-> "none",
                    result |-> "InvalidConfig"]
    /\ DOMAIN active_batches = {"b1"}
    /\ SessionsWith("b1", "Running") # {}

\* C8: the handle's total_sessions is |prompts| x |repositories|, and a
\* finished driver leaves that many session records, the n-th being the
\* record of the n-th pair, each pair created once
C8_TotalSessions ==
    \A id \in DOMAIN handles :
        LET config == active_batches[id].config
            total == Len(config.prompts) * Len(config.repositories)
        IN  /\ handles[id].total_sessions = total
            /\ driver[id].pc = "done" =>
                  /\ DOMAIN active_batches[id].sessions = 1..total
                  /\ Len(create_calls[id]) = total
                  /\ {create_calls[id][k] : k \in 1..total}
                        = {[prompt |-> config.prompts[i],
                            repository |-> config.repositories[j]] :
                              i \in 1..Len(config.prompts),
                              j \in 1..Len(config.repositories)}

\* C8 witness: a finished batch of one prompt and two repositories
C8_Witness ==
    \E id \in DOMAIN handles :
        /\ driver[id].pc = "done"
        /\ Len(active_batches[id].config.repositories) = 2
        /\ handles[id].total_sessions = 2
        /\ Cardinality(DOMAIN active_batches[id].sessions) = 2

\* C9: the create_session calls issued so far are the first pairs in
\* prompt-major order, and when the n-th is issued every earlier pair has its
\* record, and either that record was inserted Failed or its task is spawned
C9_CreateOrder ==
    \A id \in DOMAIN create_calls :
        LET n == Len(create_calls[id])
            order == PairsInOrder(active_batches[id].config)
        IN  /\ n <= Len(order)
            /\ \A k \in 1..n : create_calls[id][k] = order[k]
            /\ \A k \in 1..(n - 1) :
                   /\ k \in DOMAIN active_batches[id].sessions
                   /\ \/ k \in DOMAIN tasks[id]
                      \/ /\ active_batches[id].sessions[k].status = "Failed"
                         /\ ~active_batches[id].sessions[k].start_time

\* C9 witness: all nine create calls of the 3 x 3 grid are issued, the
\* second having failed
C9_Witness ==
    \E id \in DOMAIN create_calls :
        /\ Len(create_calls[id]) = 9
        /\ create_calls[id][4] = [prompt |-> "p2", repository |-> "r1"]
        /\ 2 \notin DOMAIN tasks[id]
        /\ 8 \in DOMAIN tasks[id]

\* C10: the snapshot get_batch_status returns counts the session records by
\* status; its percentage is 0.0 with no records and otherwise the f32
\* nearest (within the two roundings of the f32 division and product) to
\* (completed + failed) / total x 100, and exactly that when half are done
C10_Progress ==
    status_reply.result = "Ok" =>
        LET sent == status_reply.progress
            sessions == active_batches[sent.batch_id].sessions
            total == Cardinality(DOMAIN sessions)
            done == Cardinality({k \in DOMAIN sessions :
                        sessions[k].status \in {"Completed", "Failed"}})
            pct == sent.progress_percent
        IN  /\ CountsMatch(sent, sessions)
            /\ sent.status = active_batches[sent.batch_id].status
            /\ done = 0 => pct = F32Zero
            /\ done > 0 =>
                  /\ Pow2(23) <= pct.m /\ pct.m < Pow2(24)
                  /\ 2 * Abs(pct.m * total - 100 * done * Pow2(pct.e))
                        <= 3 * total
            /\ 2 * done = total /\ done > 0 => pct.m = 50 * Pow2(pct.e)
            /\ done = total /\ done > 0 => pct.m = 100 * Pow2(pct.e)

\* C10 witness: one Completed and one Running session give 1, 1 and 50.0
C10_Witness ==
    /\ status_reply.result = "Ok"
    /\ status_reply.progress.total_sessions = 2
    /\ status_reply.progress.completed_sessions = 1
    /\ status_reply.progress.running_sessions = 1
    /\ status_reply.progress.failed_sessions = 0
    /\ status_reply.progress.progress_percent = [m |-> 50 * Pow2(18), e |-> 18]

\* the batch ids start_batch has returned so far
ReturnedIds == DOMAIN handles

\* C11: a cancel_batch or get_batch_status call with an id start_batch never
\* returned answers BatchNotFound, pushes no snapshot and changes no batch
C11_UnknownBatch ==
    /\ [][(/\ last_call' # last_call
            /\ last_call'.op = "cancel_batch"
            /\ last_call'.batch_id \notin ReturnedIds) =>
             /\ last_call'.result = "BatchNotFound"
             /\ UNCHANGED <<active_batches, progress_tx, handles, driver,
                            tasks>>]_vars
    /\ [][(/\ status_reply' # status_reply
            /\ status_reply'.batch_id \notin ReturnedIds) =>
             /\ status_reply'.result = "BatchNotFound"
             /\ UNCHANGED <<active_batches, progress_tx, handles, driver,
                            tasks>>]_vars
    /\ [](DOMAIN active_batches = ReturnedIds)

\* C11 witness: with batch b1 running, cancel_batch and get_batch_status were
\* both refused for b2, and b1 has no snapshot and is still Running
C11_Witness ==
    /\ last_call = [op |-> "cancel_batch", batch_id |-> "b2",
                    result |-> "BatchNotFound"]
    /\ status_reply = [batch_id |-> "b2", result |-> "BatchNotFound"]
    /\ "b1" \in DOMAIN active_batches
    /\ active_batches["b1"].status = "Running"
    /\ progress_tx["b1"] = << >>

\* C24: every BatchProgress of a batch, sent on its channel or returned by
\* get_batch_status or list_active_batches, reports as its total the
\* total_sessions of the batch's handle
C24_TotalIsHandleTotal ==
    /\ \A id \in DOMAIN progress_tx :
           \A i \in 1..Len(progress_tx[id]) :
               progress_tx[id][i].total_sessions = handles[id].total_sessions
    /\ status_reply.result = "Ok" =>
           status_reply.progress.total_sessions
               = handles[status_reply.batch_id].total_sessions
    /\ status_reply.result = "List" =>
           \A id \in DOMAIN status_reply.batches :
               status_reply.batches[id].total_sessions
                   = handles[id].total_sessions

\* C25: a batch start_batch has returned stays in the registry: no step
\* takes a batch out of it, get_batch_status answers Ok for it with its own
\* progress, and list_active_batches lists exactly the batches returned
C25_NeverRemoved ==
    /\ [](ReturnedIds \subseteq DOMAIN active_batches)
    /\ [][DOMAIN active_batches \subseteq DOMAIN active_batches']_vars
    /\ [][status_reply' # status_reply =>
            IF status_reply'.result = "List"
            THEN /\ DOMAIN status_reply'.batches = ReturnedIds
                 /\ \A id \in ReturnedIds :
                        status_reply'.batches[id].batch_id = id
            ELSE status_reply'.batch_id \in ReturnedIds =>
                    /\ status_reply'.result = "Ok"
                    /\ status_reply'.progress.batch_id
                          = status_reply'.batch_id]_vars

\* C25 witness: the batch was cancelled and its driver has finished, and a
\* list_active_batches call made afterwards lists it with its final status
C25_Witness ==
    /\ "b1" \in DOMAIN driver
    /\ driver["b1"].pc = "done"
    /\ cancel_calls = 1
    /\ status_reply.result = "List"
    /\ DOMAIN status_reply.batches = {"b1"}
    /\ status_reply.batches["b1"].status \in {"Completed", "Failed"}
    /\ status_reply.batches["b1"].total_sessions = 1

\* the sessions a snapshot reports as over
DoneIn(snapshot) == snapshot.completed_sessions + snapshot.failed_sessions

\* the session records of batch id whose session was started and has ended
Ended(sessions) == {sid \in DOMAIN sessions : sessions[sid].end_time}

\* C26: a session task sends one snapshot, in the step in which it records
\* its session Completed or Failed and in no other; that snapshot counts the
\* session records as that step leaves them, one more over than before; a
\* session ends in such a step only; and along the channel of a batch
\* completed + failed never decreases
C26_TaskSnapshots ==
    /\ [][\A id \in DOMAIN tasks : \A sid \in DOMAIN tasks[id] :
            tasks'[id][sid] # tasks[id][sid] =>
                LET was == active_batches[id].sessions
                    now == active_batches'[id].sessions
                IN  IF tasks[id][sid] = "start_session"
                    THEN /\ was[sid].status = "Running"
                         /\ now[sid].status \in {"Completed", "Failed"}
                         /\ now[sid].end_time
                         /\ Len(progress_tx'[id]) = Len(progress_tx[id]) + 1
                         /\ SubSeq(progress_tx'[id], 1, Len(progress_tx[id]))
                               = progress_tx[id]
                         /\ LET sent == progress_tx'[id][Len(progress_tx'[id])]
                            IN  /\ sent.batch_id = id
                                /\ CountsMatch(sent, now)
                                /\ DoneIn(sent)
                                     = 1 + Cardinality({k \in DOMAIN was :
                                              was[k].status
                                                \in {"Completed", "Failed"}})
                    ELSE /\ progress_tx'[id] = progress_tx[id]
                         /\ now[sid].status \in {"Completed", "Failed"}
                               <=> was[sid].status \in {"Completed", "Failed"}
         ]_vars
    /\ [][\A id \in DOMAIN active_batches :
            \A sid \in Ended(active_batches'[id].sessions)
                          \ Ended(active_batches[id].sessions) :
                /\ tasks[id][sid] = "start_session"
                /\ tasks'[id][sid] = "recorded"]_vars
    /\ [](\A id \in DOMAIN progress_tx :
            /\ Len(progress_tx[id])
                 = Cardinality(Ended(active_batches[id].sessions))
                   + cancel_calls
                   + (IF driver[id].pc = "done" THEN 1 ELSE 0)
            /\ \A i, j \in 1..Len(progress_tx[id]) :
                   i < j => DoneIn(progress_tx[id][i])
                               <= DoneIn(progress_tx[id][j]))

\* C26 witness: of two sessions running side by side the second ended
\* first; the channel holds its snapshot alone, with one session over and
\* one, the first, still running
C26_Witness ==
    \E id \in DOMAIN tasks :
        /\ DOMAIN tasks[id] = {1, 2}
        /\ tasks[id][1] = "start_session"
        /\ active_batches[id].sessions[1].status = "Running"
        /\ active_batches[id].sessions[2].status \in {"Completed", "Failed"}
        /\ Len(progress_tx[id]) = 1
        /\ DoneIn(progress_tx[id][1]) = 1
        /\ progress_tx[id][1].running_sessions = 1

\* C27: the driver appends its final snapshot when every session task of
\* the batch has sent its own and exited, so that no task snapshot follows
\* it; the snapshot reports no session running and every session of the
\* grid over: completed + failed = total = |prompts| x |repositories|, at
\* 100 percent
C27_FinalSnapshot ==
    /\ [][\A id \in DOMAIN driver :
            (driver[id].pc = "finish" /\ driver'[id].pc = "done") =>
                LET sent == progress_tx'[id][Len(progress_tx'[id])]
                    config == active_batches[id].config
                    pct == sent.progress_percent
                IN  /\ Len(progress_tx'[id]) = Len(progress_tx[id]) + 1
                    /\ SubSeq(progress_tx'[id], 1, Len(progress_tx[id]))
                          = progress_tx[id]
                    /\ \A sid \in DOMAIN tasks[id] : tasks[id][sid] = "exited"
                    /\ Len(progress_tx[id])
                          = Cardinality(DOMAIN tasks[id]) + cancel_calls
                    /\ sent.batch_id = id
                    /\ sent.running_sessions = 0
                    /\ DoneIn(sent) = sent.total_sessions
                    /\ sent.total_sessions
                          = Len(config.prompts) * Len(config.repositories)
                    /\ sent.total_sessions = handles[id].total_sessions
                    /\ pct.m = 100 * Pow2(pct.e)
         ]_vars
    /\ [](\A id \in DOMAIN driver :
            driver[id].pc = "done" =>
                /\ \A sid \in DOMAIN tasks[id] : tasks[id][sid] = "exited"
                /\ Len(progress_tx[id])
                      = Cardinality(DOMAIN tasks[id]) + cancel_calls + 1)

\* C27 witness: a batch of two sessions, one of which could not be created
\* and one of which ran, has ended: the channel holds the task's snapshot
\* and then the driver's, which reports 2 of 2 over and none running
C27_Witness ==
    \E id \in DOMAIN driver :
        /\ driver[id].pc = "done"
        /\ cancel_calls = 0
        /\ Cardinality(DOMAIN tasks[id]) = 1
        /\ Len(progress_tx[id]) = 2
        /\ progress_tx[id][1].total_sessions = 2
        /\ progress_tx[id][2].total_sessions = 2
        /\ DoneIn(progress_tx[id][2]) = 2
        /\ progress_tx[id][2].running_sessions = 0
        /\ progress_tx[id][2].status = "Failed"

\* the step is that of a cancel_batch call that found batch id
CancelOf(id) ==
    /\ last_call'.op = "cancel_batch"
    /\ last_call'.batch_id = id
    /\ last_call'.result = "Ok"
    /\ cancel_calls' = cancel_calls + 1

\* C29: cancel_batch leaves the session tasks, their records and the
\* semaphore of the batch as they are; the task of a session that was
\* Running when the batch was cancelled goes on as in a batch that was not:
\* when start_session returns it marks the session Completed or Failed and
\* sends a snapshot that counts it, then it releases its permit and ends;
\* and under SpecCancelFair it does so eventually
C29_RunningNotInterrupted ==
    /\ [][\A id \in DOMAIN active_batches :
            CancelOf(id) =>
                /\ tasks' = tasks
                /\ driver' = driver
                /\ active_batches'[id].sessions = active_batches[id].sessions
         ]_vars
    /\ [][\A id \in DOMAIN tasks : \A sid \in DOMAIN tasks[id] :
            (/\ active_batches[id].status = "Cancelled"
             /\ tasks'[id][sid] # tasks[id][sid]) =>
                LET was == active_batches[id].sessions
                    now == active_batches'[id].sessions
                IN  /\ tasks[id][sid] = "start_session" =>
                          /\ tasks'[id][sid] = "recorded"
                          /\ was[sid].status = "Running"
                          /\ now[sid].status \in {"Completed", "Failed"}
                          /\ now[sid].end_time
                          /\ Len(progress_tx'[id]) = Len(progress_tx[id]) + 1
                          /\ DoneIn(progress_tx'[id][Len(progress_tx'[id])])
                                = 1 + Cardinality({k \in DOMAIN was :
                                         was[k].status
                                           \in {"Completed", "Failed"}})
                          /\ driver'[id].permits = driver[id].permits
                    /\ tasks[id][sid] = "recorded" =>
                          /\ tasks'[id][sid] = "exited"
                          /\ now[sid] = was[sid]
                          /\ driver'[id].permits = driver[id].permits + 1
         ]_vars
    /\ \A sid \in CancelSessions :
          ("b1" \in DOMAIN tasks
             /\ sid \in DOMAIN tasks["b1"]
             /\ tasks["b1"][sid] = "start_session"
             /\ active_batches["b1"].status = "Cancelled")
          ~> (/\ "b1" \in DOMAIN tasks
              /\ sid \in DOMAIN tasks["b1"]
              /\ tasks["b1"][sid] = "exited"
              /\ active_batches["b1"].sessions[sid].status
                    \in {"Completed", "Failed"}
              /\ active_batches["b1"].sessions[sid].end_time)

\* C29 witness: the batch was cancelled while session 1 was Running; the
\* session has since been recorded Completed, its snapshot follows that of
\* cancel_batch on the channel, and its task has ended
C29_Witness ==
    /\ "b1" \in DOMAIN tasks
    /\ 1 \in DOMAIN tasks["b1"]
    /\ tasks["b1"][1] = "exited"
    /\ cancel_calls = 1
    /\ active_batches["b1"].status = "Cancelled"
    /\ active_batches["b1"].sessions[1].status = "Completed"
    /\ Len(progress_tx["b1"]) = 2
    /\ progress_tx["b1"][1].status = "Cancelled"
    /\ progress_tx["b1"][1].running_sessions = 1
    /\ progress_tx["b1"][2].status = "Cancelled"
    /\ progress_tx["b1"][2].completed_sessions = 1

\* the moves of a session record's status that go forward
ForwardMoves ==
    {<<"Pending", "Running">>, <<"Running", "Completed">>,
     <<"Running", "Failed">>}

\* C34: a session record of a batch only moves forward.  In every step, a
\* record that enters a batch enters as Pending or as Failed, a record
\* that is in the batch is still in it after the step, with the same status
\* or with one reached by Pending -> Running, Running -> Completed or
\* Running -> Failed (so Completed and Failed are never left), and the
\* batch itself stays in the registry.
C34_ForwardOnly ==
    [][\A id \in DOMAIN active_batches :
         /\ id \in DOMAIN active_batches'
         /\ \A sid \in DOMAIN active_batches'[id].sessions :
                sid \notin DOMAIN active_batches[id].sessions
                    => active_batches'[id].sessions[sid].status
                           \in {"Pending", "Failed"}
         /\ \A sid \in DOMAIN active_batches[id].sessions :
                /\ sid \in DOMAIN active_batches'[id].sessions
                /\ LET old == active_batches[id].sessions[sid].status
                       new == active_batches'[id].sessions[sid].status
                   IN  new = old \/ <<old, new>> \in ForwardMoves]_vars

\* a batch with a session that went Pending, Running, Failed and a
\* session that was inserted as Failed
C34_Witness ==
    /\ "b1" \in DOMAIN active_batches
    /\ \E s1, s2 \in DOMAIN active_batches["b1"].sessions :
          /\ active_batches["b1"].sessions[s1].status = "Failed"
          /\ active_batches["b1"].sessions[s1].start_time
          /\ active_batches["b1"].sessions[s2].status = "Failed"
          /\ ~active_batches["b1"].sessions[s2].start_time

\* C35: every permit the driver acquires is released when its session task
\* exits.  Once the driver has made the semaphore, the free permits plus the
\* session tasks that have not exited are min(config.concurrency, 8), and
\* when the driver is done every permit is free.
C35_PermitsReleased ==
    \A id \in DOMAIN tasks :
        driver[id].pc \notin {"spawned", "set_running"} =>
            /\ driver[id].permits + Cardinality(PermitHolders(id))
                  = Min(active_batches[id].config.concurrency, 8)
            /\ driver[id].pc = "done" =>
                  driver[id].permits
                      = Min(active_batches[id].config.concurrency, 8)

\* the driver is done with a batch of concurrency 1 whose one permit was
\* held by a task whose start succeeded and by a task whose start failed
C35_Witness ==
    /\ "b1" \in DOMAIN tasks
    /\ driver["b1"].pc = "done"
    /\ active_batches["b1"].config.concurrency = 1
    /\ driver["b1"].permits = 1
    /\ \E s1, s2 \in DOMAIN tasks["b1"] :
          /\ active_batches["b1"].sessions[s1].status = "Completed"
          /\ active_batches["b1"].sessions[s2].status = "Failed"

\* every pair of the batch has had its create_session call, every session
\* that was tracked as Pending was given a task that ran start_session to
\* its end, and the driver is done
AllPairsRun ==
    /\ "b1" \in DOMAIN driver
    /\ driver["b1"].pc = "done"
    /\ Len(create_calls["b1"]) = TotalSessions(active_batches["b1"].config)
    /\ \A sid \in DOMAIN active_batches["b1"].sessions :
          LET session == active_batches["b1"].sessions[sid]
          IN  \/ sid \notin DOMAIN tasks["b1"] /\ ~session.start_time
                 /\ session.status = "Failed"
              \/ sid \in DOMAIN tasks["b1"] /\ tasks["b1"][sid] = "exited"
                 /\ session.start_time
                 /\ session.status \in {"Completed", "Failed"}

\* C36: cancel_batch does not stop the driver.  After a cancel_batch call
\* has returned, the driver in its loop still makes the create_session call
\* of the next pair, a session whose create succeeded is still given a
\* permit and a task, a task still sends its snapshot when start_session
\* returns, and the driver still sends its final one; and under
\* SpecCancelFair every pair is created and every created session started
\* and finished, eventually.
C36_CancelDoesNotStopDriver ==
    /\ [][\A id \in DOMAIN driver :
            (cancel_calls > 0 /\ driver'[id].pc # driver[id].pc) =>
                /\ driver[id].pc = "loop" =>
                      /\ driver'[id].pc = "create_session"
                      /\ Len(create_calls'[id]) = Len(create_calls[id]) + 1
                /\ driver[id].pc = "acquire" =>
                      /\ DOMAIN tasks'[id] =
                            DOMAIN tasks[id] \cup {driver[id].session_id}
                      /\ driver'[id].permits = driver[id].permits - 1
                /\ driver[id].pc = "finish" =>
                      Len(progress_tx'[id]) = Len(progress_tx[id]) + 1
         ]_vars
    /\ [][\A id \in DOMAIN tasks : \A sid \in DOMAIN tasks[id] :
            (cancel_calls > 0 /\ tasks[id][sid] = "start_session"
                              /\ tasks'[id][sid] # "start_session") =>
                Len(progress_tx'[id]) = Len(progress_tx[id]) + 1
         ]_vars
    /\ (cancel_calls > 0) ~> AllPairsRun

\* the batch was cancelled before its first session was tracked (the
\* Cancelled snapshot is the first and counts no session), and both pairs
\* were created and run after it: four snapshots in all
C36_Witness ==
    /\ AllPairsRun
    /\ cancel_calls > 0
    /\ Len(progress_tx["b1"]) = 4
    /\ progress_tx["b1"][1].status = "Cancelled"
    /\ progress_tx["b1"][1].total_sessions = 0
    /\ progress_tx["b1"][4].total_sessions = 2
    /\ progress_tx["b1"][4].completed_sessions = 2

\* the session tasks of all batches that hold a permit
AllPermitHolders ==
    UNION {{<<id, sid>> : sid \in PermitHolders(id)} : id \in DOMAIN tasks}

\* C31: across all the batches of one engine, the session tasks holding a
\* permit are never more than the engine's limit of 8
C31_EngineWideCeiling == Cardinality(AllPermitHolders) <= concurrency_limit

\* C28: no task holds a guard of active_batches while it awaits
\* create_session, start_session or a semaphore permit.  Whoever holds a
\* guard is inside one of its blocks (the driver reading the config,
\* setting Running, tracking a session or finishing; a session task marking
\* Running or recording its result), never at an await; and a step that
\* changes the registry under the write guard drops the guard, so a guard
\* covers a single mutation and the waiters get the lock without waiting
\* for a session run.
C28_NoGuardAcrossAwait ==
    /\ [](\A id \in DOMAIN driver :
            /\ lock.writer = DriverOf(id) => driver[id].pc \in DriverWrites
            /\ DriverOf(id) \in lock.readers => driver[id].pc \in DriverReads
            /\ driver[id].pc \in {"create_session", "acquire", "join"}
                   => ~Holds(lock, DriverOf(id)))
    /\ [](\A id \in DOMAIN tasks : \A sid \in DOMAIN tasks[id] :
            /\ Holds(lock, TaskOf(id, sid)) =>
                   /\ lock.writer = TaskOf(id, sid)
                   /\ tasks[id][sid] \in TaskWrites
            /\ tasks[id][sid] = "start_session"
                   => ~Holds(lock, TaskOf(id, sid)))
    /\ [][/\ lock.writer # << >>
          /\ active_batches' # active_batches
          => lock'.writer = << >>]_vars
    /\ [][/\ DOMAIN active_batches' = DOMAIN active_batches
          /\ active_batches' # active_batches
          => lock.writer # << >> /\ lock.readers = {}]_vars

\* a cancel_batch call holds the write guard while one session is inside
\* start_session and the other has not finished
C28_Witness ==
    /\ "b1" \in DOMAIN tasks
    /\ \E sid \in DOMAIN tasks["b1"] : tasks["b1"][sid] = "start_session"
    /\ lock.writer = CallOf("cancel_batch", "b1")

-----------------------------------------------------------------------------
(* Properties of the worktree manager *)

\* the step is a cleanup_orphaned_worktrees call that returned Ok
OrphanCall ==
    /\ wt_calls' = wt_calls + 1
    /\ wt_reply'.op = "cleanup_orphaned_worktrees"
    /\ wt_reply'.result = "Ok"

\* the worktrees without a session record
Orphans == {session_id \in worktrees : session_id \notin DOMAIN store}

\* the elements of a sequence
Range(seq) == {seq[i] : i \in 1..Len(seq)}

\* C22 as claimed: a cleanup_orphaned_worktrees call removes exactly the
\* worktrees without a session record, returns exactly their ids and adds
\* their number to total_orphans_cleaned
C22_RemovesExactlyOrphans ==
    [][OrphanCall =>
          /\ worktrees' = worktrees \ Orphans
          /\ Range(wt_reply'.orphaned_sessions) = Orphans
          /\ Len(wt_reply'.orphaned_sessions) = Cardinality(Orphans)
          /\ metrics'.total_orphans_cleaned
                = metrics.total_orphans_cleaned + Cardinality(Orphans)
      ]_vars

\* the orphans among the listed worktrees that the call recognises (the
\* store answers the lookup) and whose backend cleanup returns Ok
CleanedOrphans(reply) ==
    {session_id \in reply.listed \cap Orphans :
        /\ reply.lookups[session_id]
        /\ cleanup_worktree(git_backend, worktrees, session_id,
                            reply.faults[session_id]).result = "Ok"}

\* the recognised orphans whose backend cleanup returns an error
FailedOrphans(reply) ==
    {session_id \in reply.listed \cap Orphans :
        /\ reply.lookups[session_id]
        /\ cleanup_worktree(git_backend, worktrees, session_id,
                            reply.faults[session_id]).result # "Ok"}

\* C22: a cleanup_orphaned_worktrees call returns, once each, exactly the
\* ids of the listed worktrees without a session record whose backend
\* cleanup returned Ok, and those worktrees are gone; the orphans whose
\* cleanup failed are counted in errors_count and not returned; a worktree
\* whose session record exists is left in place, as is every session
\* record; total_orphans_cleaned grows by the number of ids returned and
\* total_worktrees_cleaned not at all; and when the list is complete, the
\* store answers and no cleanup fails, these are exactly the orphans
C22_OrphansCleaned ==
    [][OrphanCall =>
          LET returned == wt_reply'.orphaned_sessions
          IN  /\ Range(returned) = CleanedOrphans(wt_reply')
              /\ Len(returned) = Cardinality(CleanedOrphans(wt_reply'))
              /\ Range(returned) \cap worktrees' = {}
              /\ worktrees \ worktrees' \subseteq Orphans
              /\ \A session_id \in worktrees \cap DOMAIN store :
                    session_id \in worktrees'
              /\ worktrees' \subseteq worktrees
              /\ store' = store
              /\ metrics'.total_orphans_cleaned
                    = metrics.total_orphans_cleaned + Len(returned)
              /\ metrics'.errors_count
                    = metrics.errors_count
                      + Cardinality(FailedOrphans(wt_reply'))
              /\ metrics'.total_worktrees_cleaned
                    = metrics.total_worktrees_cleaned
              /\ metrics'.total_worktrees_created
                    = metrics.total_worktrees_created
              /\ (/\ wt_reply'.listed = worktrees
                  /\ \A session_id \in worktrees :
                        /\ wt_reply'.lookups[session_id]
                        /\ wt_reply'.faults[session_id] = "none")
                    => /\ Range(returned) = Orphans
                       /\ worktrees' = worktrees \ Orphans
      ]_vars

\* C22 witness: of two worktrees one had lost its session record; the call
\* returned that one and left the other, with its record, in place
C22_Witness ==
    /\ wt_reply.op = "cleanup_orphaned_worktrees"
    /\ wt_reply.result = "Ok"
    /\ wt_reply.listed = {"sess1111-11111111", "sess2222-22222222"}
    /\ wt_reply.orphaned_sessions = <<"sess1111-11111111">>
    /\ worktrees = {"sess2222-22222222"}
    /\ "sess2222-22222222" \in DOMAIN store
    /\ metrics.total_orphans_cleaned = 1
    /\ metrics.errors_count = 0

\* C23: the manager never counts more worktrees cleaned than created
C23_CreatedCoversCleaned ==
    metrics.total_worktrees_created >= metrics.total_worktrees_cleaned

\* a step of orphan cleanup: cleanup_orphaned of the TauriWorktreeManager
\* or the cleanup that the construction of a manager runs
OrphanCleanupStep ==
    /\ wt_calls' = wt_calls + 1
    /\ wt_reply'.op \in {"cleanup_orphaned_worktrees", "new"}

\* C40: in the desktop wiring, orphan cleanup never removes the worktree of
\* a session that create_session persisted and that has not been deleted
C40_PersistedWorktreeKept ==
    [][OrphanCleanupStep =>
           \A session_id \in DOMAIN session_store :
               session_id \in worktrees => session_id \in worktrees']_vars

-----------------------------------------------------------------------------
(* The toolbox resolver (desktop-ui/src-tauri/src/toolbox_resolver.rs) on  *)
(* a unix build: COPY_MODE is false and link_or_copy_file makes a symlink. *)
(*                                                                         *)
(* A path is the sequence of its components; `disk` maps every canonical   *)
(* absolute path that exists to its node.  A node is a directory, a        *)
(* regular file or a symlink; a symlink's target is a path that is         *)
(* absolute or relative to the symlink's parent and may hold "..".         *)

\* most resolve_toolboxes calls of a run, compose_env's included
MaxResolves == 2

\* most changes the environment makes to the toolbox roots in a run
MaxDiskChanges == 1

\* limits(): the defaults of AMP_TOOLBOX_MAX_FILES and AMP_TOOLBOX_MAX_MB
DEFAULT_MAX_FILES == 5000

DEFAULT_MAX_MB == 250

BYTES_PER_MB == 1024 * 1024

\* canonicalize gives up (ELOOP) after this many symlinks
MaxSymlinkHops == 3

DirNode(mtime) ==
    [kind |-> "dir", size |-> 1, mtime |-> mtime, content |-> "none",
     target |-> [absolute |-> TRUE, parts |-> << >>]]

FileNode(size, content) ==
    [kind |-> "file", size |-> size, mtime |-> 1, content |-> content,
     target |-> [absolute |-> TRUE, parts |-> << >>]]

SymlinkNode(absolute, parts) ==
    [kind |-> "symlink", size |-> 1, mtime |-> 1, content |-> "none",
     target |-> [absolute |-> absolute, parts |-> parts]]

\* Path::starts_with: whole components, not characters
StartsWith(path, base) ==
    /\ Len(base) <= Len(path)
    /\ SubSeq(path, 1, Len(base)) = base

\* Path::parent
Parent(path) == SubSeq(path, 1, Len(path) - 1)

\* Path::strip_prefix
StripPrefix(path, base) == SubSeq(path, Len(base) + 1, Len(path))

\* the paths fs::canonicalize cannot resolve
NoPath == <<"<error>">>

\* fs::canonicalize of the absolute path cur/rest, cur being canonical:
\* ".." steps to the physical parent, a symlink is replaced by its target
RECURSIVE CanonicalizeFrom(_, _, _, _)
CanonicalizeFrom(d, cur, rest, hops) ==
    IF rest = << >> THEN cur
    ELSE IF Head(rest) = ".."
    THEN CanonicalizeFrom(d, IF cur = << >> THEN cur ELSE Parent(cur),
                          Tail(rest), hops)
    ELSE LET next == Append(cur, Head(rest))
         IN  IF next \notin DOMAIN d THEN NoPath
             ELSE IF d[next].kind # "symlink"
             THEN IF Tail(rest) # << >> /\ d[next].kind # "dir"
                  THEN NoPath
                  ELSE CanonicalizeFrom(d, next, Tail(rest), hops)
             ELSE IF hops = 0 THEN NoPath
             ELSE CanonicalizeFrom(d,
                      IF d[next].target.absolute THEN << >> ELSE cur,
                      d[next].target.parts \o Tail(rest), hops - 1)

Canonicalize(d, path) == CanonicalizeFrom(d, << >>, path, MaxSymlinkHops)


-----------------------------------------------------------------------------
(* The disks of the model: two toolbox roots /tb/A and /tb/B, each with a  *)
(* bin directory holding at most bin/tool and bin/sub/deep (root B may     *)
(* hold the file bin/sub instead of the directory), the file /etc/passwd   *)
(* outside every root, and /alias, a symlink to /tb/A.                     *)

RootA == <<"tb", "A">>

RootB == <<"tb", "B">>

Alias == <<"alias">>

Missing == <<"missing">>

Outside == <<"etc", "passwd">>

RelTool == <<"tool">>

RelSub == <<"sub">>

RelDeep == <<"sub", "deep">>

RelPaths == {RelTool, RelSub, RelDeep}

BinOf(root) == Append(root, "bin")

\* the targets a symlink of root A at bin/<rel> is given: the other entry of
\* the same bin, /etc/passwd, or the bin of root B
SymlinkTargets(rel) ==
    LET other == IF rel = RelTool THEN RelDeep ELSE RelTool
        up == [k \in 1..(Len(rel) + 2) |-> ".."]
    IN  [abs_in      |-> SymlinkNode(TRUE, BinOf(RootA) \o other),
         rel_in      |-> SymlinkNode(FALSE,
                             [k \in 1..(Len(rel) - 1) |-> ".."] \o other),
         abs_out     |-> SymlinkNode(TRUE, Outside),
         rel_out     |-> SymlinkNode(FALSE, up \o Outside),
         abs_sibling |-> SymlinkNode(TRUE, BinOf(RootB))]

SymlinkKinds == {"abs_in", "rel_in", "abs_out", "rel_out", "abs_sibling"}

FileKinds == {"file1", "file2"}

\* the node of an entry of kind k at bin/<rel> of a root
EntryNode(root, rel, k) ==
    IF k = "file1" THEN FileNode(1, root[2])
    ELSE IF k = "file2" THEN FileNode(2, root[2])
    ELSE SymlinkTargets(rel)[k]

\* what root A holds: bin/tool and bin/sub/deep, each absent, a file or a
\* symlink, with at most one symlink
TreesA ==
    {t \in [tool : {"absent"} \cup FileKinds \cup SymlinkKinds,
            deep : {"absent", "file1"} \cup SymlinkKinds] :
        ~ (t.tool \in SymlinkKinds /\ t.deep \in SymlinkKinds)}

\* what root B holds: files only, bin/sub being a file or a directory
TreesB ==
    [tool : {"absent"} \cup FileKinds, sub : {"absent", "file", "dir"}]

Skeleton ==
    (<< >> :> DirNode(1)) @@ (<<"tb">> :> DirNode(1))
    @@ (RootA :> DirNode(1)) @@ (BinOf(RootA) :> DirNode(1))
    @@ (RootB :> DirNode(1)) @@ (BinOf(RootB) :> DirNode(1))
    @@ (<<"etc">> :> DirNode(1)) @@ (Outside :> FileNode(1, "secret"))
    @@ (Alias :> SymlinkNode(TRUE, RootA))

DiskImage(a, b) ==
    Skeleton
    @@ (IF a.tool = "absent" THEN << >>
        ELSE (BinOf(RootA) \o RelTool :> EntryNode(RootA, RelTool, a.tool)))
    @@ (IF a.deep = "absent" THEN << >>
        ELSE (BinOf(RootA) \o RelSub :> DirNode(1))
             @@ (BinOf(RootA) \o RelDeep :> EntryNode(RootA, RelDeep, a.deep)))
    @@ (IF b.tool = "absent" THEN << >>
        ELSE (BinOf(RootB) \o RelTool :> EntryNode(RootB, RelTool, b.tool)))
    @@ (IF b.sub = "absent" THEN << >>
        ELSE IF b.sub = "file"
        THEN (BinOf(RootB) \o RelSub :> FileNode(1, RootB[2]))
        ELSE (BinOf(RootB) \o RelSub :> DirNode(1))
             @@ (BinOf(RootB) \o RelDeep :> FileNode(1, RootB[2])))

DiskImages == {DiskImage(a, b) : a \in TreesA, b \in TreesB}


-----------------------------------------------------------------------------
(* resolve_toolboxes, computed as the code computes it.  The 16 characters *)
(* of the blake3 digest are modelled by the sequence of values fed to the  *)
(* hasher: equal inputs give equal names, and no two inputs collide.       *)

\* WalkDir::new(dir).follow_links(false): dir and all below it, symlinked
\* directories not entered
WalkDir(d, dir) == {p \in DOMAIN d : StartsWith(p, dir)}

\* a digest that also covers the entries below each path
hash_set_of_trees(d, paths) ==
    [k \in 1..Len(paths) |->
        [path |-> paths[k],
         meta |-> <<d[paths[k]].size, d[paths[k]].mtime,
                    Cardinality(WalkDir(d, paths[k]))>>]]

\* hash_set: per path, its canonical form, then the length and the
\* modification time of its metadata when they can be read
hash_set(d, paths) ==
    [k \in 1..Len(paths) |->
        LET c == IF Canonicalize(d, paths[k]) = NoPath THEN paths[k]
                 ELSE Canonicalize(d, paths[k])
        IN  IF c \in DOMAIN d
            THEN [path |-> c, meta |-> <<d[c].size, d[c].mtime>>]
            ELSE [path |-> c, meta |-> << >>]]

\* the three variables limits() reads; a negative number stands for a
\* variable that is unset or does not parse
LimitEnvs ==
    {[max_files |-> f, max_bytes |-> b, max_mb |-> -1] :
        f \in {-1, 1, 2}, b \in {-1, 2}}
    \cup {[max_files |-> -1, max_bytes |-> -1, max_mb |-> 1]}

limits(le) ==
    [max_files |-> IF le.max_files < 0 THEN DEFAULT_MAX_FILES
                   ELSE le.max_files,
     max_bytes |-> IF le.max_bytes >= 0 THEN le.max_bytes
                   ELSE (IF le.max_mb < 0 THEN DEFAULT_MAX_MB ELSE le.max_mb)
                            * BYTES_PER_MB]

\* a validation that lets every symlink pass
ValidateNothing(d, symlink_path, root) == "Ok"

\* validate_symlink_security of a symlink of the tree of root
validate_symlink_security(d, symlink_path, root) ==
    LET target == d[symlink_path].target
        resolved_target == IF target.absolute THEN target.parts
                           ELSE Parent(symlink_path) \o target.parts
        canonical_target == Canonicalize(d, resolved_target)
        canonical_root == Canonicalize(d, root)
    IN  IF canonical_target = NoPath
        THEN "failed to canonicalize symlink target"
        ELSE IF canonical_root = NoPath
        THEN "failed to canonicalize root"
        ELSE IF ~ StartsWith(canonical_target, canonical_root)
        THEN "symlink target escapes toolbox root"
        ELSE "Ok"

\* validate_directory_symlinks: the first error of the walk, if any
validate_directory_symlinks(d, dir, root) ==
    LET errors == {validate_symlink_security(d, p, root) :
                      p \in {q \in WalkDir(d, dir) : d[q].kind = "symlink"}}
                  \ {"Ok"}
    IN  IF errors = {} THEN "Ok" ELSE CHOOSE e \in errors : TRUE


\* the nodes of a runtime directory, keyed by the path below its bin
MergedDir == [kind |-> "dir", target |-> << >>]

MergedLink(src) == [kind |-> "symlink", target |-> src]

\* Path::exists on an entry of the merged bin: a symlink is followed
MergedExists(d, merged, rel) ==
    /\ rel \in DOMAIN merged
    /\ \/ merged[rel].kind = "dir"
       \/ Canonicalize(d, merged[rel].target) # NoPath

\* the proper ancestors of bin/<rel> below bin
Ancestors(rel) == {SubSeq(rel, 1, n) : n \in 1..(Len(rel) - 1)}

\* the state of the merge loop: the merged bin, the running totals, the
\* manifest entries and the error that ended the loop, if any
MergeStart ==
    [merged |-> << >>, files_count |-> 0, bytes_total |-> 0,
     bin_entries |-> << >>, error |-> "Ok"]

\* a merge in which the first root to provide a path keeps it
MergeFileFirstWins(d, acc, lim, idx, r, rel) ==
    LET src == BinOf(r) \o rel
        withDirs == [a \in Ancestors(rel) |-> MergedDir] @@ acc.merged
    IN  IF acc.files_count + 1 > lim.max_files
        THEN [acc EXCEPT !.error = "toolbox file limit exceeded"]
        ELSE IF acc.bytes_total + d[src].size > lim.max_bytes
        THEN [acc EXCEPT !.error = "toolbox size limit exceeded"]
        ELSE [merged |-> withDirs @@ (rel :> MergedLink(src)),
              files_count |-> acc.files_count + 1,
              bytes_total |-> acc.bytes_total + d[src].size,
              bin_entries |-> Append(acc.bin_entries,
                                     [idx |-> idx - 1, root |-> r,
                                      rel |-> rel]),
              error |-> "Ok"]

\* a merge whose totals count a path once, however many roots provide it
MergeFileCountsNames(d, acc, lim, idx, r, rel) ==
    LET src == BinOf(r) \o rel
        withDirs == [a \in Ancestors(rel) |-> MergedDir] @@ acc.merged
        n == IF rel \in DOMAIN acc.merged THEN 0 ELSE 1
        sz == IF rel \in DOMAIN acc.merged THEN 0 ELSE d[src].size
    IN  IF acc.files_count + n > lim.max_files
        THEN [acc EXCEPT !.error = "toolbox file limit exceeded"]
        ELSE IF acc.bytes_total + sz > lim.max_bytes
        THEN [acc EXCEPT !.error = "toolbox size limit exceeded"]
        ELSE [merged |-> (rel :> MergedLink(src)) @@ withDirs,
              files_count |-> acc.files_count + n,
              bytes_total |-> acc.bytes_total + sz,
              bin_entries |-> Append(acc.bin_entries,
                                     [idx |-> idx - 1, root |-> r,
                                      rel |-> rel]),
              error |-> "Ok"]

\* a merge that rolls back what it linked when a limit trips
MergeFileRollsBack(d, acc, lim, idx, r, rel) ==
    LET src == BinOf(r) \o rel
        withDirs == [a \in Ancestors(rel) |-> MergedDir] @@ acc.merged
        removed == IF MergedExists(d, withDirs, rel)
                      /\ withDirs[rel].kind # "dir"
                   THEN [x \in DOMAIN withDirs \ {rel} |-> withDirs[x]]
                   ELSE withDirs
    IN  IF \E a \in Ancestors(rel) :
               a \in DOMAIN acc.merged /\ acc.merged[a].kind # "dir"
        THEN [acc EXCEPT !.error = "create_dir_all"]
        ELSE IF acc.files_count + 1 > lim.max_files
        THEN [acc EXCEPT !.merged = << >>,
                         !.error = "toolbox file limit exceeded"]
        ELSE IF acc.bytes_total + d[src].size > lim.max_bytes
        THEN [acc EXCEPT !.merged = << >>,
                         !.error = "toolbox size limit exceeded"]
        ELSE IF rel \in DOMAIN removed
        THEN [acc EXCEPT !.merged = removed, !.error = "symlink: File exists"]
        ELSE [merged |-> (rel :> MergedLink(src)) @@ removed,
              files_count |-> acc.files_count + 1,
              bytes_total |-> acc.bytes_total + d[src].size,
              bin_entries |-> Append(acc.bin_entries,
                                     [idx |-> idx - 1, root |-> r,
                                      rel |-> rel]),
              error |-> "Ok"]

\* one regular file of root number idx (toolbox_resolver.rs:223-237)
MergeFile(d, acc, lim, idx, r, rel) ==
    LET src == BinOf(r) \o rel
        sz == d[src].size
        blocked == \E a \in Ancestors(rel) :
                       a \in DOMAIN acc.merged /\ acc.merged[a].kind # "dir"
        withDirs == [a \in Ancestors(rel) |-> MergedDir] @@ acc.merged
        removed == IF MergedExists(d, withDirs, rel)
                      /\ withDirs[rel].kind # "dir"
                   THEN [x \in DOMAIN withDirs \ {rel} |-> withDirs[x]]
                   ELSE withDirs
    IN  IF blocked THEN [acc EXCEPT !.error = "create_dir_all"]
        ELSE IF acc.files_count + 1 > lim.max_files
        THEN [acc EXCEPT !.merged = withDirs,
                         !.error = "toolbox file limit exceeded"]
        ELSE IF acc.bytes_total + sz > lim.max_bytes
        THEN [acc EXCEPT !.merged = withDirs,
                         !.error = "toolbox size limit exceeded"]
        ELSE IF rel \in DOMAIN removed
        THEN [acc EXCEPT !.merged = removed, !.error = "symlink: File exists"]
        ELSE [merged |-> (rel :> MergedLink(src)) @@ removed,
              files_count |-> acc.files_count + 1,
              bytes_total |-> acc.bytes_total + sz,
              bin_entries |-> Append(acc.bin_entries,
                                     [idx |-> idx - 1, root |-> r,
                                      rel |-> rel]),
              error |-> "Ok"]

\* a walk that merges the symlinks of bin like its regular files
RECURSIVE MergeFilesAndSymlinks(_, _, _, _, _, _)
MergeFilesAndSymlinks(d, acc, lim, idx, r, rels) ==
    IF rels = << >> \/ acc.error # "Ok" THEN acc
    ELSE LET src == BinOf(r) \o Head(rels)
         IN  MergeFilesAndSymlinks(d,
                 IF src \in DOMAIN d /\ d[src].kind \in {"file", "symlink"}
                 THEN MergeFile(d, acc, lim, idx, r, Head(rels))
                 ELSE acc,
                 lim, idx, r, Tail(rels))

\* the regular files of the walk of bin, in the order the walk yields them
RECURSIVE MergeFiles(_, _, _, _, _, _)
MergeFiles(d, acc, lim, idx, r, rels) ==
    IF rels = << >> \/ acc.error # "Ok" THEN acc
    ELSE LET src == BinOf(r) \o Head(rels)
         IN  MergeFiles(d,
                 IF src \in DOMAIN d /\ d[src].kind = "file"
                 THEN MergeFile(d, acc, lim, idx, r, Head(rels))
                 ELSE acc,
                 lim, idx, r, Tail(rels))

\* the orders in which a walk of bin can yield tool, sub and sub/deep
WalkOrders == {<<RelTool, RelSub, RelDeep>>, <<RelSub, RelDeep, RelTool>>}

\* the loop over the roots (toolbox_resolver.rs:207-239); order[idx] is the
\* order of the walk of root number idx
RECURSIVE MergeRoots(_, _, _, _, _, _)
MergeRoots(d, acc, lim, canon, idx, order) ==
    IF idx > Len(canon) \/ acc.error # "Ok" THEN acc
    ELSE LET r == canon[idx]
             rbin == BinOf(r)
             valid == validate_directory_symlinks(d, rbin, r)
         IN  IF rbin \notin DOMAIN d
             THEN MergeRoots(d, acc, lim, canon, idx + 1, order)
             ELSE IF valid # "Ok" THEN [acc EXCEPT !.error = valid]
             ELSE MergeRoots(d,
                      MergeFiles(d, acc, lim, idx, r, order[idx]),
                      lim, canon, idx + 1, order)


-----------------------------------------------------------------------------
(* The calls of the resolver's clients *)

\* <base>/runtime_toolboxes/<digest> and its bin
RuntimeRoot(digest) == [dir |-> digest, sub |-> "root"]

RuntimeBin(digest) == [dir |-> digest, sub |-> "bin"]

ToolboxGuard(digest, keep) == [root |-> RuntimeRoot(digest), keep |-> keep]

\* Vec::remove, Option::take and fs::remove_dir_all on the model's values
RemoveAt(seq, i) == SubSeq(seq, 1, i - 1) \o SubSeq(seq, i + 1, Len(seq))

RemoveDirAll(rt, digest) == [x \in DOMAIN rt \ {digest} |-> rt[x]]

\* resolve_toolboxes leaving a runtime directory that exists as it is
KeepExisting(rt, digest) == rt

\* toolbox_resolver.rs:196-199: a runtime directory that exists is removed
CleanExisting(rt, digest) ==
    IF digest \in DOMAIN rt THEN RemoveDirAll(rt, digest) ELSE rt

\* a resolver that prepares the runtime directory before it looks at the
\* roots: a root that does not canonicalize is hashed as it was given
resolve_toolboxes_dir_first(d, rt, roots, keep_artifacts, le, order) ==
    LET canon == [k \in 1..Len(roots) |-> Canonicalize(d, roots[k])]
        digest == hash_set(d, roots)
        rt1 == Insert(CleanExisting(rt, digest), digest, << >>)
    IN  IF roots = << >>
        THEN [result |-> "no toolbox roots provided", runtime |-> rt1,
              digest |-> << >>, value |-> << >>]
        ELSE IF \E k \in 1..Len(roots) : canon[k] = NoPath
        THEN [result |-> "canonicalize", runtime |-> rt1,
              digest |-> << >>, value |-> << >>]
        ELSE [result |-> "create_dir_all", runtime |-> rt1,
              digest |-> digest, value |-> << >>]

\* resolve_toolboxes(roots, keep_artifacts) as a function of the disk, the
\* runtime directories, the limit variables and the order of the walks: the
\* error or "Ok", the runtime directories afterwards and the value returned
resolve_toolboxes(d, rt, roots, keep_artifacts, le, order) ==
    LET canon == [k \in 1..Len(roots) |-> Canonicalize(d, roots[k])]
        digest == hash_set(d, canon)
        cleaned == CleanExisting(rt, digest)
        start == [MergeStart EXCEPT !.merged =
                     IF digest \in DOMAIN cleaned THEN cleaned[digest]
                     ELSE << >>]
        acc == MergeRoots(d, start, limits(le), canon, 1, order)
        rt1 == Insert(cleaned, digest, acc.merged)
    IN  IF roots = << >>
        THEN [result |-> "no toolbox roots provided", runtime |-> rt,
              digest |-> << >>, value |-> << >>]
        ELSE IF \E k \in 1..Len(roots) : canon[k] = NoPath
        THEN [result |-> "canonicalize", runtime |-> rt,
              digest |-> << >>, value |-> << >>]
        ELSE IF acc.error # "Ok"
        THEN [result |-> acc.error, runtime |-> rt1, digest |-> digest,
              value |-> << >>]
        ELSE [result |-> "Ok", runtime |-> rt1, digest |-> digest,
              value |-> <<[root |-> RuntimeRoot(digest),
                           bin |-> RuntimeBin(digest),
                           manifest |->
                               [sources |-> canon,
                                files_count |-> acc.files_count,
                                bytes_total |-> acc.bytes_total,
                                copy_mode |-> FALSE,
                                bin_entries |-> acc.bin_entries],
                           guard |-> <<ToolboxGuard(digest,
                                                    keep_artifacts)>>]>>]

\* the size and the modification time of each root of a list at a call
RootMetas(d, roots) ==
    [k \in 1..Len(roots) |->
        IF Canonicalize(d, roots[k]) = NoPath THEN << >>
        ELSE <<d[Canonicalize(d, roots[k])].size,
               d[Canonicalize(d, roots[k])].mtime>>]

\* what a resolve_toolboxes call leaves in last_resolve
ResolveRecord(n, roots, keep_artifacts, le, out) ==
    [n |-> n, roots |-> roots, keep |-> keep_artifacts,
     limits |-> limits(le), result |-> out.result, digest |-> out.digest,
     disk_changes |-> disk_changes, metas |-> RootMetas(disk, roots)]

\* a client calls resolve_toolboxes and holds the value returned
Resolve(roots, keep_artifacts, le, order) ==
    /\ last_resolve.n < MaxResolves
    /\ LET out == resolve_toolboxes(disk, runtime, roots, keep_artifacts,
                                    le, order)
       IN  /\ runtime' = out.runtime
           /\ resolved' = resolved \o out.value
           /\ last_resolve' = ResolveRecord(last_resolve.n + 1, roots,
                                            keep_artifacts, le, out)
    /\ UNCHANGED <<disk, guards, env, tb_reply, disk_changes>>
    /\ UNCHANGED <<active_batches, progress_tx, driver, tasks, create_calls,
                   handles, last_call, cancel_calls, status_reply>>
    /\ UNCHANGED <<lock, wtvars, smvars>>


\* ResolvedToolbox::take_guard on the i-th value held
TakeGuard(i) ==
    /\ i \in 1..Len(resolved)
    /\ tb_reply' = [op |-> "take_guard", index |-> i,
                    guard |-> resolved[i].guard]
    /\ resolved' = [resolved EXCEPT ![i].guard = << >>]
    /\ guards' = guards \o resolved[i].guard
    /\ UNCHANGED <<disk, runtime, env, last_resolve, disk_changes>>
    /\ UNCHANGED <<active_batches, progress_tx, driver, tasks, create_calls,
                   handles, last_call, cancel_calls, status_reply>>
    /\ UNCHANGED <<lock, wtvars, smvars>>

\* a guard whose release removes nothing
DropGuardKeepsAll(rt, guard) == rt

\* Drop for ToolboxGuard (toolbox_resolver.rs:35-41)

DropGuard(rt, guard) ==
    IF ~ guard.keep THEN RemoveDirAll(rt, guard.root.dir) ELSE rt

\* a client lets go of the j-th guard it took
ReleaseGuard(j) ==
    /\ j \in 1..Len(guards)
    /\ runtime' = DropGuard(runtime, guards[j])
    /\ guards' = RemoveAt(guards, j)
    /\ UNCHANGED <<disk, resolved, env, last_resolve, tb_reply,
                   disk_changes>>
    /\ UNCHANGED <<active_batches, progress_tx, driver, tasks, create_calls,
                   handles, last_call, cancel_calls, status_reply>>
    /\ UNCHANGED <<lock, wtvars, smvars>>

\* a client lets go of the i-th ResolvedToolbox: a guard still in it is
\* dropped with it
ReleaseResolved(i) ==
    /\ i \in 1..Len(resolved)
    /\ runtime' = IF resolved[i].guard = << >> THEN runtime
                  ELSE DropGuard(runtime, resolved[i].guard[1])
    /\ resolved' = RemoveAt(resolved, i)
    /\ UNCHANGED <<disk, guards, env, last_resolve, tb_reply, disk_changes>>
    /\ UNCHANGED <<active_batches, progress_tx, driver, tasks, create_calls,
                   handles, last_call, cancel_calls, status_reply>>
    /\ UNCHANGED <<lock, wtvars, smvars>>

\* the environment removes a regular file from the bin of a root: the
\* metadata of the root directory itself stays as it was
RemoveSourceFile(path) ==
    /\ disk_changes < MaxDiskChanges
    /\ path \in DOMAIN disk
    /\ disk[path].kind = "file"
    /\ \E r \in {RootA, RootB} : StartsWith(path, BinOf(r))
    /\ disk' = [x \in DOMAIN disk \ {path} |-> disk[x]]
    /\ disk_changes' = disk_changes + 1
    /\ UNCHANGED <<runtime, resolved, guards, env, last_resolve, tb_reply>>
    /\ UNCHANGED <<active_batches, progress_tx, driver, tasks, create_calls,
                   handles, last_call, cancel_calls, status_reply>>
    /\ UNCHANGED <<lock, wtvars, smvars>>

\* the environment changes a root directory, which moves its modification
\* time
TouchRoot(r) ==
    /\ disk_changes < MaxDiskChanges
    /\ r \in DOMAIN disk
    /\ disk' = [disk EXCEPT ![r].mtime = @ + 1]
    /\ disk_changes' = disk_changes + 1
    /\ UNCHANGED <<runtime, resolved, guards, env, last_resolve, tb_reply>>
    /\ UNCHANGED <<active_batches, progress_tx, driver, tasks, create_calls,
                   handles, last_call, cancel_calls, status_reply>>
    /\ UNCHANGED <<lock, wtvars, smvars>>


-----------------------------------------------------------------------------
(* One resolve_toolboxes call on any of the disks, with an empty           *)
(* runtime_toolboxes directory.                                            *)

\* the root lists handed to resolve_toolboxes
RootLists ==
    {<< >>, <<RootA>>, <<RootB>>, <<Alias>>, <<RootA, RootB>>,
     <<RootB, RootA>>, <<Alias, RootB>>, <<RootA, Missing>>,
     <<RootA, RootA>>}

\* the walk orders of a call, one per root of the list
CallOrders == [1..2 -> WalkOrders]

\* no resolve_toolboxes call made yet, no environment map
NothingResolved ==
    /\ runtime = << >>
    /\ resolved = << >>
    /\ guards = << >>
    /\ env = << >>
    /\ last_resolve = [n |-> 0, result |-> "none"]
    /\ tb_reply = [op |-> "none"]
    /\ disk_changes = 0

InitResolve ==
    /\ NoWorktrees
    /\ NoSessions
    /\ lock = NoLock
    /\ NoBatches
    /\ disk \in DiskImages
    /\ NothingResolved

NextResolve ==
    \E roots \in RootLists, keep_artifacts \in BOOLEAN, le \in LimitEnvs,
       order \in CallOrders :
        /\ last_resolve.n = 0
        /\ Resolve(roots, keep_artifacts, le, order)

SpecResolve == InitResolve /\ [][NextResolve]_vars


-----------------------------------------------------------------------------
(* Clients that resolve up to MaxResolves times while the environment      *)
(* changes the roots up to MaxDiskChanges times; every value returned is   *)
(* held to the end of the run, so no runtime directory is removed by a     *)
(* guard.                                                                  *)

\* two disks: plain files in both roots; an escaping symlink in A
LifecycleDisks ==
    {DiskImage([tool |-> "file2", deep |-> "file1"],
               [tool |-> "file1", sub |-> "dir"]),
     DiskImage([tool |-> "file1", deep |-> "abs_out"],
               [tool |-> "file1", sub |-> "absent"])}

\* A and its alias give the same canonical list, hence the same digest
LifecycleRoots == {<<RootA>>, <<Alias>>, <<RootA, RootB>>, <<RootB, RootA>>}

\* the default limits, and AMP_TOOLBOX_MAX_FILES=1
LifecycleLimits ==
    {[max_files |-> f, max_bytes |-> -1, max_mb |-> -1] : f \in {-1, 1}}

\* every walk yields bin/tool first
LifecycleOrders == {[k \in 1..2 |-> <<RelTool, RelSub, RelDeep>>]}

\* the files the environment may remove, and the root it may touch
RemovablePaths == {BinOf(RootA) \o RelDeep, BinOf(RootB) \o RelTool}

TouchableRoots == {RootA}

InitRebuild ==
    /\ NoWorktrees
    /\ NoSessions
    /\ lock = NoLock
    /\ NoBatches
    /\ disk \in LifecycleDisks
    /\ NothingResolved

NextRebuild ==
    \/ \E roots \in LifecycleRoots, keep_artifacts \in BOOLEAN,
          le \in LifecycleLimits, order \in LifecycleOrders :
           Resolve(roots, keep_artifacts, le, order)
    \/ \E path \in RemovablePaths : RemoveSourceFile(path)
    \/ \E r \in TouchableRoots : TouchRoot(r)

SpecRebuild == InitRebuild /\ [][NextRebuild]_vars

-----------------------------------------------------------------------------
(* Clients that resolve up to MaxResolves times on an unchanging disk,     *)
(* take guards, and let go of guards and of resolved toolboxes.            *)

\* plain files in both roots, bin/tool in both
GuardDisks ==
    {DiskImage([tool |-> "file2", deep |-> "file1"],
               [tool |-> "file1", sub |-> "absent"])}

GuardRoots == {<<RootA>>, <<Alias>>, <<RootA, RootB>>}

\* the default limits; every walk yields bin/tool first
GuardLimits == {[max_files |-> -1, max_bytes |-> -1, max_mb |-> -1]}

GuardOrders == {[k \in 1..2 |-> <<RelTool, RelSub, RelDeep>>]}

InitGuard ==
    /\ NoWorktrees
    /\ NoSessions
    /\ lock = NoLock
    /\ NoBatches
    /\ disk \in GuardDisks
    /\ NothingResolved

NextGuard ==
    \/ \E roots \in GuardRoots, keep_artifacts \in BOOLEAN,
          le \in GuardLimits, order \in GuardOrders :
           Resolve(roots, keep_artifacts, le, order)
    \/ \E i \in 1..MaxResolves : TakeGuard(i)
    \/ \E j \in 1..MaxResolves : ReleaseGuard(j)
    \/ \E i \in 1..MaxResolves : ReleaseResolved(i)

SpecGuard == InitGuard /\ [][NextGuard]_vars

-----------------------------------------------------------------------------
(* Clients that resolve up to MaxResolves times on an unchanging disk,     *)
(* with root lists the resolver refuses among those it accepts: the empty  *)
(* list and lists holding a path that does not exist.                      *)

RefusedRoots == {<< >>, <<Missing>>, <<RootA, Missing>>, <<Missing, RootA>>}

RefuseRoots == LifecycleRoots \cup RefusedRoots

InitRefuse ==
    /\ NoWorktrees
    /\ NoSessions
    /\ lock = NoLock
    /\ NoBatches
    /\ disk \in LifecycleDisks
    /\ NothingResolved

NextRefuse ==
    \E roots \in RefuseRoots, keep_artifacts \in BOOLEAN,
       le \in LifecycleLimits, order \in LifecycleOrders :
        Resolve(roots, keep_artifacts, le, order)

SpecRefuse == InitRefuse /\ [][NextRefuse]_vars

-----------------------------------------------------------------------------
(* The environment composer (desktop-ui/src-tauri/src/env_composer.rs) on  *)
(* a unix build.  A string of the environment map is the sequence of its   *)
(* pieces: a character, a path written out, or the name of a runtime       *)
(* directory.                                                              *)

\* the piece that is the text s
Tok(s) == [str |-> s, dir |-> << >>]

\* the piece that is the path with these components, written out
PathTok(path) == [str |-> "path", dir |-> path]

\* the pieces that are <base>/runtime_toolboxes/<digest> and its bin
RootTok(digest) == [str |-> "runtime root", dir |-> digest]

BinTok(digest) == [str |-> "runtime bin", dir |-> digest]

\* the string of these characters
Chars(cs) == [k \in 1..Len(cs) |-> Tok(cs[k])]

\* char::to_lowercase on the letters of the model
LowerChar(c) ==
    IF c = "F" THEN "f" ELSE IF c = "A" THEN "a" ELSE IF c = "L" THEN "l"
    ELSE IF c = "S" THEN "s" ELSE IF c = "E" THEN "e" ELSE c

\* str::to_lowercase
ToLowercase(v) == [k \in 1..Len(v) |-> [v[k] EXCEPT !.str = LowerChar(@)]]

\* a composer that ignores AMP_ENABLE_TOOLBOXES
AlwaysEnabled(e) == TRUE

\* env_composer.rs:89-91
ToolboxesEnabled(e) ==
    IF "AMP_ENABLE_TOOLBOXES" \in DOMAIN e
    THEN /\ e["AMP_ENABLE_TOOLBOXES"] # Chars(<<"0">>)
         /\ ToLowercase(e["AMP_ENABLE_TOOLBOXES"])
              # Chars(<<"f", "a", "l", "s", "e">>)
    ELSE TRUE

Separators == {":", ","}

\* str::trim on a run of pieces
RECURSIVE TrimStart(_)
TrimStart(v) ==
    IF v # << >> /\ Head(v).str = " " THEN TrimStart(Tail(v)) ELSE v

RECURSIVE TrimEnd(_)
TrimEnd(v) ==
    IF v # << >> /\ v[Len(v)].str = " "
    THEN TrimEnd(SubSeq(v, 1, Len(v) - 1)) ELSE v

Trim(v) == TrimEnd(TrimStart(v))

\* str::split on ':' and ',': the runs between separators, empty ones too
RECURSIVE SplitOn(_, _)
SplitOn(v, run) ==
    IF v = << >> THEN <<run>>
    ELSE IF Head(v).str \in Separators
    THEN <<run>> \o SplitOn(Tail(v), << >>)
    ELSE SplitOn(Tail(v), Append(run, Head(v)))

\* split_paths: the trimmed, non-empty runs
split_paths(v) ==
    SelectSeq([k \in 1..Len(SplitOn(v, << >>)) |->
                  Trim(SplitOn(v, << >>)[k])],
              LAMBDA run : run # << >>)

\* PathBuf::from on a run of pieces: the components of the paths written out
RECURSIVE PathBufFrom(_)
PathBufFrom(run) ==
    IF run = << >> THEN << >>
    ELSE Head(run).dir \o PathBufFrom(Tail(run))

\* Vec<String>::join(":")
RECURSIVE JoinPaths(_)
JoinPaths(paths) ==
    IF paths = << >> THEN << >>
    ELSE IF Len(paths) = 1 THEN <<PathTok(paths[1])>>
    ELSE <<PathTok(paths[1]), Tok(":")>> \o JoinPaths(Tail(paths))

\* env_composer.rs:82-86: the profile, when one is given as <<profile>>
WithProfile(e, profile) ==
    IF profile = << >> THEN e
    ELSE Insert(Insert(e, "AMP_TOOLBOX_PATHS", JoinPaths(profile[1].paths)),
                "AMP_ACTIVE_TOOLBOX_PROFILE", Chars(<<profile[1].name>>))

\* a composer that puts the resolved bin behind the prior PATH
NewPathAppended(e, digest) ==
    LET prev_path == IF "PATH" \in DOMAIN e THEN e["PATH"] ELSE << >>
    IN  IF prev_path = << >> THEN <<BinTok(digest)>>
        ELSE prev_path \o <<Tok(":"), BinTok(digest)>>

\* env_composer.rs:110-115
NewPath(e, digest) ==
    LET prev_path == IF "PATH" \in DOMAIN e THEN e["PATH"] ELSE << >>
    IN  IF prev_path = << >> THEN <<BinTok(digest)>>
        ELSE <<BinTok(digest), Tok(":")>> \o prev_path

\* the roots compose_env hands to the resolver
ComposeRoots(e) ==
    IF "AMP_TOOLBOX_PATHS" \notin DOMAIN e THEN << >>
    ELSE [k \in 1..Len(split_paths(e["AMP_TOOLBOX_PATHS"])) |->
              PathBufFrom(split_paths(e["AMP_TOOLBOX_PATHS"])[k])]

\* (mutant) the prior PATH is taken out of the map before the roots are
\* resolved, and is lost when they do not resolve
ComposeEnvTakesPath(profile, le, order) ==
    LET e1 == WithProfile(env, profile)
        roots == ComposeRoots(e1)
        out == resolve_toolboxes(disk, runtime, roots, FALSE, le, order)
    IN  /\ IF ~ ToolboxesEnabled(e1) \/ roots = << >>
           THEN /\ env' = e1
                /\ tb_reply' = [op |-> "compose_env", profile |-> profile,
                                result |-> "Ok", guard |-> << >>]
                /\ UNCHANGED <<runtime, guards, last_resolve>>
           ELSE /\ last_resolve.n < MaxResolves
                /\ runtime' = out.runtime
                /\ last_resolve' = ResolveRecord(last_resolve.n + 1, roots,
                                                 FALSE, le, out)
                /\ IF out.result # "Ok"
                   THEN /\ env' = [key \in DOMAIN e1 \ {"PATH"} |-> e1[key]]
                        /\ tb_reply' = [op |-> "compose_env",
                                        profile |-> profile,
                                        result |-> out.result,
                                        guard |-> << >>]
                        /\ UNCHANGED guards
                   ELSE /\ env' = Insert(Insert(e1, "PATH",
                                             NewPath(e1, out.value[1].bin.dir)),
                                         "AMP_TOOLBOX",
                                         <<RootTok(out.value[1].root.dir)>>)
                        /\ tb_reply' = [op |-> "compose_env",
                                        profile |-> profile,
                                        result |-> "Ok",
                                        guard |-> out.value[1].guard]
                        /\ guards' = guards \o out.value[1].guard
        /\ UNCHANGED <<disk, resolved, disk_changes>>
        /\ UNCHANGED <<active_batches, progress_tx, driver, tasks,
                       create_calls, handles, last_call, cancel_calls,
                       status_reply>>
        /\ UNCHANGED <<lock, wtvars, smvars>>

\* EnvComposer::compose_env of any of the three composers: they differ in
\* the context they log only.  profile is << >> or <<profile>>.
ComposeEnv(profile, le, order) ==
    LET e1 == WithProfile(env, profile)
        roots == ComposeRoots(e1)
        out == resolve_toolboxes(disk, runtime, roots, FALSE, le, order)
    IN  /\ IF ~ ToolboxesEnabled(e1) \/ roots = << >>
           THEN /\ env' = e1
                /\ tb_reply' = [op |-> "compose_env", profile |-> profile,
                                result |-> "Ok", guard |-> << >>]
                /\ UNCHANGED <<runtime, guards, last_resolve>>
           ELSE /\ last_resolve.n < MaxResolves
                /\ runtime' = out.runtime
                /\ last_resolve' = ResolveRecord(last_resolve.n + 1, roots,
                                                 FALSE, le, out)
                /\ IF out.result # "Ok"
                   THEN /\ env' = e1
                        /\ tb_reply' = [op |-> "compose_env",
                                        profile |-> profile,
                                        result |-> out.result,
                                        guard |-> << >>]
                        /\ UNCHANGED guards
                   ELSE /\ env' = Insert(Insert(e1, "PATH",
                                             NewPath(e1, out.value[1].bin.dir)),
                                         "AMP_TOOLBOX",
                                         <<RootTok(out.value[1].root.dir)>>)
                        /\ tb_reply' = [op |-> "compose_env",
                                        profile |-> profile,
                                        result |-> "Ok",
                                        guard |-> out.value[1].guard]
                        /\ guards' = guards \o out.value[1].guard
        /\ UNCHANGED <<disk, resolved, disk_changes>>
        /\ UNCHANGED <<active_batches, progress_tx, driver, tasks,
                       create_calls, handles, last_call, cancel_calls,
                       status_reply>>
        /\ UNCHANGED <<lock, wtvars, smvars>>

-----------------------------------------------------------------------------
(* One compose_env call on any environment map of the model, followed by   *)
(* the release of the guard it returned.                                   *)

\* a key of the map: absent when o is << >>, else holding o[1]
Entry(key, o) == IF o = << >> THEN << >> ELSE (key :> o[1])

FlagValues ==
    {Chars(<<"0">>), Chars(<<"f", "a", "l", "s", "e">>),
     Chars(<<"F", "A", "L", "S", "E">>), Chars(<<"F", "a", "l", "s", "e">>),
     Chars(<<"1">>), Chars(<<"t", "r", "u", "e">>), Chars(<<"0", "0">>),
     << >>}

PathsValues ==
    {<< >>, <<PathTok(RootA)>>,
     <<PathTok(RootA), Tok(":"), PathTok(RootB)>>,
     <<PathTok(Alias), Tok(","), Tok(" "), PathTok(RootB)>>,
     <<Tok(":"), Tok(" ")>>, <<PathTok(Missing)>>}

PriorPaths == {<< >>, <<Tok("/usr/bin"), Tok(":"), Tok("/bin")>>}

EnvMaps ==
    {Entry("AMP_ENABLE_TOOLBOXES", flag) @@ Entry("AMP_TOOLBOX_PATHS", paths)
       @@ Entry("PATH", path) @@ Entry("AMP_TOOLBOX", tb) :
        flag \in {<< >>} \cup {<<v>> : v \in FlagValues},
        paths \in {<< >>} \cup {<<v>> : v \in PathsValues},
        path \in {<< >>} \cup {<<v>> : v \in PriorPaths},
        tb \in {<< >>, <<Chars(<<"stale">>)>>}}

Profiles ==
    {<< >>, <<[name |-> "dev", paths |-> <<RootA, RootB>>]>>,
     <<[name |-> "none", paths |-> << >>]>>}

\* plain files in both roots; an escaping symlink in A
ComposeDisks ==
    {DiskImage([tool |-> "file2", deep |-> "file1"],
               [tool |-> "file1", sub |-> "absent"]),
     DiskImage([tool |-> "file1", deep |-> "abs_out"],
               [tool |-> "file1", sub |-> "absent"])}

ComposeLimits == {[max_files |-> -1, max_bytes |-> -1, max_mb |-> -1]}

InitCompose ==
    /\ NoWorktrees
    /\ NoSessions
    /\ lock = NoLock
    /\ NoBatches
    /\ disk \in ComposeDisks
    /\ runtime = << >>
    /\ resolved = << >>
    /\ guards = << >>
    /\ env \in EnvMaps
    /\ last_resolve = [n |-> 0, result |-> "none"]
    /\ tb_reply = [op |-> "none"]
    /\ disk_changes = 0

NextCompose ==
    \/ \E profile \in Profiles, le \in ComposeLimits, order \in GuardOrders :
           /\ tb_reply.op = "none"
           /\ ComposeEnv(profile, le, order)
    \/ \E j \in 1..MaxResolves : ReleaseGuard(j)

SpecCompose == InitCompose /\ [][NextCompose]_vars

-----------------------------------------------------------------------------
(* Properties of the toolbox resolver *)

\* a step that is a resolve_toolboxes call
ResolveCall == last_resolve'.n = last_resolve.n + 1

\* the merged bin of the runtime directory the last call named
MergedBin(rt, call) ==
    IF call.digest \in DOMAIN rt THEN rt[call.digest] ELSE << >>

\* the roots of the list, by number, with a regular file at bin/<rel>
Providers(d, roots, rel) ==
    {k \in 1..Len(roots) :
        LET src == BinOf(Canonicalize(d, roots[k])) \o rel
        IN  src \in DOMAIN d /\ d[src].kind = "file"}

\* the greatest number of a set of root numbers
Last(ks) == CHOOSE k \in ks : \A j \in ks : j <= k

\* what a read of bin/<rel> in a merged bin returns
ReadMerged(d, merged, rel) ==
    IF rel \notin DOMAIN merged \/ merged[rel].kind # "symlink"
    THEN "nothing"
    ELSE IF Canonicalize(d, merged[rel].target) = NoPath THEN "nothing"
    ELSE d[Canonicalize(d, merged[rel].target)].content

\* what a read of bin/<rel> of the k-th root of a list returns
ReadSource(d, roots, k, rel) ==
    d[BinOf(Canonicalize(d, roots[k])) \o rel].content

\* C12: after a successful resolve, every path some root provides as a
\* regular file reads, in the merged bin, as the file of the last root of the
\* list that provides it
C12_LastRootWins ==
    [][(ResolveCall /\ last_resolve'.result = "Ok") =>
          \A rel \in RelPaths :
              LET ks == Providers(disk', last_resolve'.roots, rel)
              IN  ks # {} =>
                    ReadMerged(disk', MergedBin(runtime', last_resolve'), rel)
                      = ReadSource(disk', last_resolve'.roots, Last(ks), rel)
      ]_vars

\* C12 witness: [A, B] resolved; bin/tool, which both provide, reads as B's
\* and bin/sub/deep, which only A provides, reads as A's
C12_Witness ==
    /\ last_resolve.n > 0
    /\ last_resolve.result = "Ok"
    /\ last_resolve.roots = <<RootA, RootB>>
    /\ Providers(disk, last_resolve.roots, RelTool) = {1, 2}
    /\ Providers(disk, last_resolve.roots, RelDeep) = {1}
    /\ ReadMerged(disk, MergedBin(runtime, last_resolve), RelTool) = "B"
    /\ ReadMerged(disk, MergedBin(runtime, last_resolve), RelDeep) = "A"


\* the symlinks below the bin of root r whose canonical target exists and
\* lies outside r
EscapingLinks(d, r) ==
    {p \in DOMAIN d :
        /\ StartsWith(p, BinOf(r))
        /\ d[p].kind = "symlink"
        /\ Canonicalize(d, p) # NoPath
        /\ ~ StartsWith(Canonicalize(d, p), r)}

\* the roots of a list, by number, that hold such a symlink
EscapingRoots(d, roots) ==
    {k \in 1..Len(roots) :
        /\ Canonicalize(d, roots[k]) # NoPath
        /\ EscapingLinks(d, Canonicalize(d, roots[k])) # {}}

\* nothing of root k and nothing a symlink of root k points at is linked
\* into the merged bin
NothingOf(d, merged, roots, k) ==
    \A rel \in DOMAIN merged :
        merged[rel].kind = "symlink" =>
            /\ ~ StartsWith(merged[rel].target, Canonicalize(d, roots[k]))
            /\ \A p \in EscapingLinks(d, Canonicalize(d, roots[k])) :
                   Canonicalize(d, merged[rel].target) # Canonicalize(d, p)

\* the call returned no ResolvedToolbox, hence no guard
NothingReturned == resolved' = resolved /\ guards' = guards

EscapesError == "symlink target escapes toolbox root"

\* the first root of the list with an escaping symlink
FirstOf(ks) == CHOOSE k \in ks : \A j \in ks : k <= j

InsideLinks(d, r) ==
    {p \in DOMAIN d :
        /\ StartsWith(p, BinOf(r))
        /\ d[p].kind = "symlink"
        /\ Canonicalize(d, p) # NoPath
        /\ StartsWith(Canonicalize(d, p), r)}

\* all symlinks below the bin of root r
Symlinks(d, r) ==
    {p \in DOMAIN d : StartsWith(p, BinOf(r)) /\ d[p].kind = "symlink"}

SymlinkErrors ==
    {EscapesError, "failed to canonicalize symlink target",
     "failed to canonicalize root"}

SourceFiles(d, roots) ==
    {<<k, rel>> \in (1..Len(roots)) \X RelPaths :
        k \in Providers(d, roots, rel)}

RECURSIVE SumSizes(_, _, _)
SumSizes(d, roots, files) ==
    IF files = {} THEN 0
    ELSE LET f == CHOOSE f \in files : TRUE
         IN  d[BinOf(Canonicalize(d, roots[f[1]])) \o f[2]].size
               + SumSizes(d, roots, files \ {f})

FileLimitError == "toolbox file limit exceeded"

SizeLimitError == "toolbox size limit exceeded"

IoErrors == {"create_dir_all", "symlink: File exists"}

\* every root of the list canonicalizes and holds no symlink that fails
\* validation, so that the merge reaches every file
AllRootsMerge(d, roots) ==
    /\ roots # << >>
    /\ \A k \in 1..Len(roots) :
         /\ Canonicalize(d, roots[k]) # NoPath
         /\ Symlinks(d, Canonicalize(d, roots[k]))
              = InsideLinks(d, Canonicalize(d, roots[k]))

\* C15: the totals count a regular file once per root providing it, in root
\* order; the call fails with the file limit error only if the files of the
\* roots outnumber max_files and with the size limit error only if their
\* bytes exceed max_bytes, it does fail when they do, and on success the
\* manifest's totals are the totals of the roots and within both limits
C15_Limits ==
    [][ResolveCall =>
          LET roots == last_resolve'.roots
              lim == last_resolve'.limits
              files == SourceFiles(disk', roots)
              count == Cardinality(files)
              bytes == SumSizes(disk', roots, files)
              res == last_resolve'.result
          IN  /\ res = FileLimitError => count > lim.max_files
              /\ res = SizeLimitError => bytes > lim.max_bytes
              /\ AllRootsMerge(disk', roots) =>
                   /\ (count > lim.max_files \/ bytes > lim.max_bytes)
                          => res \in {FileLimitError, SizeLimitError}
                                        \cup IoErrors
                   /\ (count > lim.max_files /\ bytes <= lim.max_bytes)
                          => res \in {FileLimitError} \cup IoErrors
                   /\ (bytes > lim.max_bytes /\ count <= lim.max_files)
                          => res \in {SizeLimitError} \cup IoErrors
              /\ res = "Ok" =>
                   LET m == resolved'[Len(resolved')].manifest
                   IN  /\ m.files_count = count
                       /\ m.bytes_total = bytes
                       /\ m.files_count <= lim.max_files
                       /\ m.bytes_total <= lim.max_bytes
                       /\ Len(m.bin_entries) = count
                       /\ \A i, j \in 1..Len(m.bin_entries) :
                              i < j => m.bin_entries[i].idx
                                          <= m.bin_entries[j].idx
      ]_vars

\* C15 witness: [A, B] resolved with max_files = 2, both roots providing
\* bin/tool and nothing else: the call succeeded with files_count = 2 for the
\* one merged entry
C15_Witness ==
    /\ last_resolve.n > 0
    /\ last_resolve.result = "Ok"
    /\ last_resolve.roots = <<RootA, RootB>>
    /\ last_resolve.limits.max_files = 2
    /\ DOMAIN MergedBin(runtime, last_resolve) = {RelTool}
    /\ resolved[Len(resolved)].manifest.files_count = 2
    /\ resolved[Len(resolved)].manifest.bytes_total = 3


\* the paths the roots of a list provide as regular files
ProvidedPaths(d, roots) ==
    {rel \in RelPaths : Providers(d, roots, rel) # {}}

\* C16: a successful resolve leaves in the merged bin exactly the paths the
\* current roots provide as regular files, under the directories that lead
\* to them, whatever an earlier resolve left in the runtime directory of the
\* same digest; and a second resolve of unchanged roots leaves the runtime
\* directory as the first one left it
C16_FullRebuild ==
    [][(ResolveCall /\ last_resolve'.result = "Ok") =>
          LET roots == last_resolve'.roots
              merged == MergedBin(runtime', last_resolve')
              files == ProvidedPaths(disk', roots)
          IN  /\ {rel \in DOMAIN merged : merged[rel].kind # "dir"} = files
              /\ {rel \in DOMAIN merged : merged[rel].kind = "dir"}
                   = UNION {Ancestors(rel) : rel \in files}
              /\ \A rel \in files :
                     ReadMerged(disk', merged, rel) # "nothing"
              /\ (/\ last_resolve.result = "Ok"
                  /\ last_resolve.digest = last_resolve'.digest
                  /\ last_resolve.disk_changes = last_resolve'.disk_changes)
                   => merged = MergedBin(runtime, last_resolve)
      ]_vars

\* C16 witness: the second of two successful resolves into the same runtime
\* directory, a file having been removed from a root in between: the first
\* merged two files, the second one, and the merged bin holds no entry for
\* the file removed nor for its directory
C16_Witness ==
    /\ last_resolve.n = 2
    /\ last_resolve.result = "Ok"
    /\ disk_changes = 1
    /\ BinOf(RootA) \o RelDeep \notin DOMAIN disk
    /\ Len(resolved) = 2
    /\ resolved[1].root = resolved[2].root
    /\ resolved[1].manifest.files_count = 2
    /\ resolved[2].manifest.files_count = 1
    /\ RelDeep \notin DOMAIN MergedBin(runtime, last_resolve)
    /\ RelSub \notin DOMAIN MergedBin(runtime, last_resolve)
    /\ RelTool \in DOMAIN MergedBin(runtime, last_resolve)


\* the canonical form of every root of a list
CanonicalRoots(d, roots) ==
    [k \in 1..Len(roots) |-> Canonicalize(d, roots[k])]

\* C17: two successive resolve calls whose root lists are the same, or have
\* the same canonical paths, and whose roots had the same sizes and
\* modification times at both calls, name the same runtime directory,
\* whatever keep_artifacts was and whatever happened below the roots in
\* between
C17_SameName ==
    [][(/\ ResolveCall
        /\ last_resolve.n > 0
        /\ last_resolve.digest # << >>
        /\ last_resolve'.digest # << >>
        /\ CanonicalRoots(disk, last_resolve.roots)
             = CanonicalRoots(disk', last_resolve'.roots)
        /\ last_resolve.metas = last_resolve'.metas)
          => last_resolve'.digest = last_resolve.digest
      ]_vars

\* C17 witness: [A] resolved with one value of keep_artifacts, a file removed
\* from A/bin, then [/alias] resolved with the other value: both values name
\* the same runtime directory
C17_Witness ==
    /\ last_resolve.n = 2
    /\ last_resolve.roots = <<Alias>>
    /\ disk_changes = 1
    /\ BinOf(RootA) \o RelDeep \notin DOMAIN disk
    /\ Len(resolved) = 2
    /\ resolved[1].manifest.files_count = 2
    /\ resolved[2].manifest.files_count = 1
    /\ resolved[1].guard[1].keep # resolved[2].guard[1].keep
    /\ resolved[1].root = resolved[2].root


\* what the release of a guard must do to the runtime directories
Released(guard) ==
    IF guard.keep THEN runtime' = runtime
    ELSE /\ guard.root.dir \notin DOMAIN runtime'
         /\ \A x \in DOMAIN runtime \ {guard.root.dir} :
                x \in DOMAIN runtime' /\ runtime'[x] = runtime[x]

\* C18: take_guard hands out the guard of a ResolvedToolbox the first time
\* and nothing afterwards, a guard has one owner, and the release of a guard,
\* taken or still inside its ResolvedToolbox, removes its runtime directory
\* if keep_artifacts was false and leaves every directory alone if it was
\* true
C18_GuardOnce ==
    /\ [][tb_reply' # tb_reply =>
            /\ tb_reply'.op = "take_guard"
            /\ tb_reply'.guard = resolved[tb_reply'.index].guard
            /\ resolved'[tb_reply'.index].guard = << >>
            /\ guards' = guards \o tb_reply'.guard
            /\ runtime' = runtime]_vars
    /\ [][Len(guards') < Len(guards) =>
            \E j \in 1..Len(guards) :
                /\ guards' = RemoveAt(guards, j)
                /\ Released(guards[j])]_vars
    /\ [][Len(resolved') < Len(resolved) =>
            \E i \in 1..Len(resolved) :
                /\ resolved' = RemoveAt(resolved, i)
                /\ IF resolved[i].guard = << >> THEN runtime' = runtime
                   ELSE Released(resolved[i].guard[1])]_vars
    /\ [](Len(guards)
            + Cardinality({i \in 1..Len(resolved) :
                              resolved[i].guard # << >>})
          <= last_resolve.n)

\* C18 witness: one resolve with keep_artifacts false; its guard was taken, a
\* second take_guard returned nothing, the guard was released and the runtime
\* directory is gone
C18_Witness ==
    /\ last_resolve.n = 1
    /\ last_resolve.result = "Ok"
    /\ ~ last_resolve.keep
    /\ Len(resolved) = 1
    /\ resolved[1].guard = << >>
    /\ guards = << >>
    /\ tb_reply = [op |-> "take_guard", index |-> 1, guard |-> << >>]
    /\ last_resolve.digest \notin DOMAIN runtime


\* the roots of a list, by number, that fs::canonicalize cannot resolve
UnresolvableRoots(d, roots) ==
    {k \in 1..Len(roots) : Canonicalize(d, roots[k]) = NoPath}

\* C21: a resolve of the empty list fails with 'no toolbox roots provided'
\* and a resolve of a list with a root that does not canonicalize fails with
\* the canonicalize error; either call returns nothing and leaves every
\* runtime directory, those of earlier calls included, as it was
C21_RefusedEarly ==
    [][ResolveCall =>
          LET roots == last_resolve'.roots
          IN  /\ roots = << >> =>
                   /\ last_resolve'.result = "no toolbox roots provided"
                   /\ runtime' = runtime
                   /\ NothingReturned
              /\ UnresolvableRoots(disk', roots) # {} =>
                   /\ last_resolve'.result = "canonicalize"
                   /\ runtime' = runtime
                   /\ NothingReturned
      ]_vars

\* C21 witness: [A] was resolved and its runtime directory holds bin/tool;
\* then [A, /missing] was refused with the canonicalize error, and the
\* runtime directory of the first call is the only one and still holds it
C21_Witness ==
    /\ last_resolve.n = 2
    /\ last_resolve.roots = <<RootA, Missing>>
    /\ last_resolve.result = "canonicalize"
    /\ Len(resolved) = 1
    /\ DOMAIN runtime = {resolved[1].root.dir}
    /\ RelTool \in DOMAIN runtime[resolved[1].root.dir]


\* the regular files of the roots of a list as <<root number, path>>, in the
\* order a merge with these walk orders reaches them
RECURSIVE FilesInOrder(_, _, _, _)
FilesInOrder(d, roots, order, k) ==
    IF k > Len(roots) THEN << >>
    ELSE [i \in 1..Len(SelectSeq(order[k],
                 LAMBDA rel : k \in Providers(d, roots, rel))) |->
             <<k, SelectSeq(order[k],
                   LAMBDA rel : k \in Providers(d, roots, rel))[i]>>]
         \o FilesInOrder(d, roots, order, k + 1)

\* the bytes of the first n of these files
RECURSIVE BytesOfPrefix(_, _, _, _)
BytesOfPrefix(d, roots, files, n) ==
    IF n = 0 THEN 0
    ELSE d[BinOf(Canonicalize(d, roots[files[n][1]])) \o files[n][2]].size
           + BytesOfPrefix(d, roots, files, n - 1)

\* the roots of a list, by number, with a symlink that fails validation
InvalidRoots(d, roots) ==
    {k \in 1..Len(roots) :
        Symlinks(d, Canonicalize(d, roots[k]))
            # InsideLinks(d, Canonicalize(d, roots[k]))}

\* how many of these files are linked when the call fails with error res
LinkedBefore(d, roots, files, lim, res) ==
    IF res = FileLimitError THEN lim.max_files
    ELSE IF res = SizeLimitError
    THEN CHOOSE n \in 0..Len(files) :
             /\ BytesOfPrefix(d, roots, files, n) <= lim.max_bytes
             /\ \/ n = Len(files)
                \/ BytesOfPrefix(d, roots, files, n + 1) > lim.max_bytes
    ELSE Cardinality({i \in 1..Len(files) :
                         files[i][1] < FirstOf(InvalidRoots(d, roots))})

\* the links a bin holds once the first n of these files are linked, a later
\* file replacing an earlier one at the same path
LinksOfPrefix(d, roots, files, n) ==
    [rel \in {files[i][2] : i \in 1..n} |->
        LET i == Last({j \in 1..n : files[j][2] = rel})
        IN  BinOf(Canonicalize(d, roots[files[i][1]])) \o rel]

\* the links of a merged bin: path below bin -> source file
LinksOf(merged) ==
    [rel \in {x \in DOMAIN merged : merged[x].kind = "symlink"} |->
        merged[rel].target]

\* C30: a resolve that fails at a file or size limit or at the symlink
\* validation of a root returns nothing, hence no guard, and leaves its
\* runtime directory in place with exactly the files linked before the
\* failure: those the merge reached, in root order, before the file that
\* tripped the limit or before the root that failed validation
C30_PartialKept ==
    [][(ResolveCall
          /\ last_resolve'.result
                \in {FileLimitError, SizeLimitError} \cup SymlinkErrors) =>
          LET roots == last_resolve'.roots
              res == last_resolve'.result
          IN  /\ NothingReturned
              /\ last_resolve'.digest \in DOMAIN runtime'
              /\ \E order \in CallOrders :
                    LET files == FilesInOrder(disk', roots, order, 1)
                        n == LinkedBefore(disk', roots, files,
                                          last_resolve'.limits, res)
                    IN  /\ n <= Len(files)
                        /\ LinksOf(runtime'[last_resolve'.digest])
                             = LinksOfPrefix(disk', roots, files, n)
      ]_vars

\* C30 witness: [B, A] resolved with max_files = 2, B holding bin/tool and
\* bin/sub/deep and A bin/tool: the file limit tripped at A's file, nothing
\* was returned and the runtime directory holds B's two files
C30_Witness ==
    /\ last_resolve.n > 0
    /\ last_resolve.roots = <<RootB, RootA>>
    /\ last_resolve.result = FileLimitError
    /\ last_resolve.limits.max_files = 2
    /\ resolved = << >>
    /\ guards = << >>
    /\ last_resolve.digest \in DOMAIN runtime
    /\ ReadMerged(disk, MergedBin(runtime, last_resolve), RelTool) = "B"
    /\ ReadMerged(disk, MergedBin(runtime, last_resolve), RelDeep) = "B"
    /\ BinOf(RootA) \o RelTool \in DOMAIN disk


-----------------------------------------------------------------------------
(* Properties of the environment composer *)

\* a step that is a compose_env call
ComposeCall == tb_reply.op = "none" /\ tb_reply'.op = "compose_env"

\* the value is the text 'false' in any letter case
IsFalseAnyCase(v) ==
    /\ Len(v) = 5
    /\ v[1].str \in {"f", "F"} /\ v[2].str \in {"a", "A"}
    /\ v[3].str \in {"l", "L"} /\ v[4].str \in {"s", "S"}
    /\ v[5].str \in {"e", "E"}

\* AMP_ENABLE_TOOLBOXES is '0' or 'false' in any letter case
Disabled(e) ==
    /\ "AMP_ENABLE_TOOLBOXES" \in DOMAIN e
    /\ \/ e["AMP_ENABLE_TOOLBOXES"] = <<Tok("0")>>
       \/ IsFalseAnyCase(e["AMP_ENABLE_TOOLBOXES"])

\* the key is absent from both maps or holds the same value in both
SameAt(e1, e2, key) ==
    /\ key \in DOMAIN e1 <=> key \in DOMAIN e2
    /\ key \in DOMAIN e1 => e1[key] = e2[key]

ProfileKeys == {"AMP_TOOLBOX_PATHS", "AMP_ACTIVE_TOOLBOX_PROFILE"}

\* C19: with AMP_ENABLE_TOOLBOXES '0' or 'false' in any letter case,
\* compose_env returns Ok without a guard, makes no resolve call, changes no
\* runtime directory and leaves every key of the map as it was, PATH and
\* AMP_TOOLBOX included, but the two keys of a profile, which it writes only
\* when a profile was given
C19_Disabled ==
    [][(ComposeCall /\ Disabled(env)) =>
          /\ tb_reply'.result = "Ok"
          /\ tb_reply'.guard = << >>
          /\ UNCHANGED <<last_resolve, runtime, guards, resolved>>
          /\ SameAt(env, env', "PATH")
          /\ SameAt(env, env', "AMP_TOOLBOX")
          /\ \A key \in (DOMAIN env \cup DOMAIN env') \ ProfileKeys :
                 SameAt(env, env', key)
          /\ tb_reply'.profile = << >> => env' = env
      ]_vars

\* C19 witness: compose_env was called with a profile on a map holding
\* AMP_ENABLE_TOOLBOXES=FALSE, valid AMP_TOOLBOX_PATHS, a PATH and no
\* AMP_TOOLBOX: no guard, no resolve call, PATH as before, still no
\* AMP_TOOLBOX, the profile's name written
C19_Witness ==
    /\ tb_reply.op = "compose_env"
    /\ tb_reply.profile # << >>
    /\ tb_reply.guard = << >>
    /\ {"AMP_ENABLE_TOOLBOXES", "AMP_TOOLBOX_PATHS",
        "AMP_ACTIVE_TOOLBOX_PROFILE"} \subseteq DOMAIN env
    /\ env["AMP_ENABLE_TOOLBOXES"] = Chars(<<"F", "A", "L", "S", "E">>)
    /\ env["AMP_TOOLBOX_PATHS"] = <<PathTok(RootA), Tok(":"), PathTok(RootB)>>
    /\ env["AMP_ACTIVE_TOOLBOX_PROFILE"] = Chars(<<"dev">>)
    /\ "PATH" \in DOMAIN env
    /\ env["PATH"] = <<Tok("/usr/bin"), Tok(":"), Tok("/bin")>>
    /\ "AMP_TOOLBOX" \notin DOMAIN env
    /\ last_resolve.n = 0
    /\ runtime = << >>


\* C20: with toolboxes enabled and AMP_TOOLBOX_PATHS (the profile's paths
\* when a profile is given) yielding at least one path, compose_env resolves
\* those paths with keep_artifacts false, and when they resolve it sets PATH
\* to the resolved bin, followed by ':' and the prior PATH unless that was
\* absent or empty, sets AMP_TOOLBOX to the resolved root and returns the
\* guard of that resolution
C20_Enabled ==
    [][(ComposeCall /\ ~ Disabled(env)) =>
          LET roots == ComposeRoots(WithProfile(env, tb_reply'.profile))
              d == last_resolve'.digest
              prior == IF "PATH" \in DOMAIN env THEN env["PATH"] ELSE << >>
          IN  roots # << >> =>
                /\ ResolveCall
                /\ last_resolve'.roots = roots
                /\ ~ last_resolve'.keep
                /\ last_resolve'.result = "Ok" =>
                     /\ {"PATH", "AMP_TOOLBOX"} \subseteq DOMAIN env'
                     /\ env'["PATH"] = IF prior = << >> THEN <<BinTok(d)>>
                                       ELSE <<BinTok(d), Tok(":")>> \o prior
                     /\ env'["AMP_TOOLBOX"] = <<RootTok(d)>>
                     /\ tb_reply'.result = "Ok"
                     /\ tb_reply'.guard = <<ToolboxGuard(d, FALSE)>>
                     /\ guards' = guards \o tb_reply'.guard
                     /\ d \in DOMAIN runtime'
                     /\ resolved' = resolved
      ]_vars

\* C20 witness: compose_env was called without a profile on a map holding
\* AMP_ENABLE_TOOLBOXES=true, AMP_TOOLBOX_PATHS='/alias, /tb/B' and
\* PATH=/usr/bin:/bin; the caller holds the guard and PATH is the resolved
\* bin, ':' and the prior PATH
C20_Witness ==
    /\ tb_reply.op = "compose_env"
    /\ tb_reply.profile = << >>
    /\ tb_reply.guard # << >>
    /\ guards = tb_reply.guard
    /\ last_resolve.n = 1
    /\ last_resolve.roots = <<Alias, RootB>>
    /\ {"AMP_ENABLE_TOOLBOXES", "PATH", "AMP_TOOLBOX"} \subseteq DOMAIN env
    /\ env["AMP_ENABLE_TOOLBOXES"] = Chars(<<"t", "r", "u", "e">>)
    /\ env["PATH"] = <<BinTok(last_resolve.digest), Tok(":"),
                       Tok("/usr/bin"), Tok(":"), Tok("/bin")>>
    /\ env["AMP_TOOLBOX"] = <<RootTok(last_resolve.digest)>>
    /\ last_resolve.digest \in DOMAIN runtime

\* C39: when the resolution of the toolbox roots fails inside compose_env,
\* compose_env returns that very error and no guard, no guard is made, and
\* PATH and AMP_TOOLBOX are as before the call (absent if they were absent);
\* and compose_env returns no error but that of a failed resolution
C39_FailureFrame ==
    [][ComposeCall =>
          /\ (ResolveCall /\ last_resolve'.result # "Ok") =>
                /\ tb_reply'.result = last_resolve'.result
                /\ tb_reply'.guard = << >>
                /\ guards' = guards
                /\ SameAt(env, env', "PATH")
                /\ SameAt(env, env', "AMP_TOOLBOX")
          /\ tb_reply'.result # "Ok" =>
                /\ ResolveCall
                /\ last_resolve'.result = tb_reply'.result
      ]_vars

\* a compose_env call with a profile failed on a map that held a PATH and
\* an AMP_TOOLBOX: both are still there, and the profile's keys are written
C39_Witness ==
    /\ tb_reply.op = "compose_env"
    /\ tb_reply.result # "Ok"
    /\ tb_reply.profile # << >>
    /\ tb_reply.guard = << >>
    /\ guards = << >>
    /\ {"PATH", "AMP_TOOLBOX", "AMP_ACTIVE_TOOLBOX_PROFILE"} \subseteq DOMAIN env
    /\ env["PATH"] = <<Tok("/usr/bin"), Tok(":"), Tok("/bin")>>

\* the guards that are live: taken and not released, or still inside a
\* ResolvedToolbox a client holds
LiveGuards(gs, rs) ==
    {gs[j] : j \in 1..Len(gs)}
        \cup UNION {{rs[i].guard[k] : k \in 1..Len(rs[i].guard)} :
                       i \in 1..Len(rs)}

\* C33: while a guard with keep false is live, its runtime directory is
\* there and is left alone.  In every step that a live guard with keep
\* false outlives, the directory of the guard is not removed, however the
\* step ends (a release of another guard of the same digest included), and
\* the step is no resolve call that cleans and builds that directory again.
C33_LiveGuardProtects ==
    [][\A g \in LiveGuards(guards, resolved)
                   \cap LiveGuards(guards', resolved') :
          ~ g.keep =>
             /\ g.root.dir \in DOMAIN runtime => g.root.dir \in DOMAIN runtime'
             /\ ~ (ResolveCall /\ last_resolve'.digest = g.root.dir)
      ]_vars

\* C32: for every pair whose create succeeded, the session id the engine
\* records and passes to start_session is the id under which create_session
\* persisted the session: every session that was given a task is in the
\* store under the id the engine holds for it, and no start_session call of
\* a task ends with 'Session not found'
C32_StartFindsCreated ==
    \A id \in DOMAIN tasks : \A sid \in DOMAIN tasks[id] :
        /\ EngineUuids[sid] \in DOMAIN session_store
        /\ StartAnswered(sid) =>
               calls[TaskCallers[sid]].result # "Session not found"

-----------------------------------------------------------------------------
(* Properties of the session manager *)

\* C37: of the start_session calls for one session id that run side by
\* side, at most one spawns a process.  A process is spawned for an id
\* only when none spawned for it earlier is still there: the processes
\* spawned for an id are at most one more than those stop_session killed.
C37_OneStarter ==
    \A session_id \in DOMAIN children :
        children[session_id].spawned - children[session_id].killed <= 1

\* no start_session or stop_session call is in progress
Quiescent == \A c \in DOMAIN calls : calls[c].pc = "returned"

\* C38: whenever no start_session or stop_session call is in progress,
\* metrics.active_sessions is the number of entries of the active-session
\* map
C38_ActiveSessionsCounted ==
    Quiescent =>
        session_metrics.active_sessions = Cardinality(DOMAIN active_sessions)

====
